---- MODULE Spec2Model ----
(***************************************************************************)
(* Model of the komple-framework marketplace, token and mint contracts.    *)
(*                                                                         *)
(* Every top-level invocation (one transaction) is one action.  An action  *)
(* runs the entry handler on a copy of the world, then dispatches the      *)
(* messages the handler returned, in order, to the bank, the fee contract  *)
(* or the token contract; if the handler or any dispatched message fails,  *)
(* the world is left as it was and only the outcome is recorded in `last'. *)
(***************************************************************************)
EXTENDS Integers, Sequences, FiniteSets, TLC

VARIABLES
    market,   \* storage of the marketplace contract
    tok,      \* storage of each token (collection) contract, by address
    mint,     \* storage of the mint module (collection registries)
    bank,     \* native balances kept by the host chain
    ext,      \* storage of the hub, the fee contract and the whitelist contracts
    last      \* outcome of the last top-level invocation

vars == <<market, tok, mint, bank, ext, last>>

----------------------------------------------------------------------------
(* Bounds of the model *)

NumTokens == 1
MaxPrice == 10
InitBalance == 10

----------------------------------------------------------------------------
(* Addresses, denoms and other program constants *)

USER == "juno..user"
RANDOM == "juno..random"
ADMIN == "juno..admin"
MARKET == "marketplace"
MINT_MODULE == "mint_module"
HUB == "hub"
KOMPLE_FEE_CONTRACT_ADDR == "contract0"
NATIVE_DENOM == "denom"
TEST_DENOM == "test_denom"

Users == {USER, RANDOM}
Callers == Users \cup {ADMIN}
Addrs == Callers \cup {MARKET, MINT_MODULE, HUB, KOMPLE_FEE_CONTRACT_ADDR}
Denoms == {NATIVE_DENOM, TEST_DENOM}

\* addresses the host gives to the token contracts, in order of creation
ChildAddrs == <<"collection1", "collection2", "collection3", "collection4">>
CollectionIds == {1}
CollectionAddrs == {ChildAddrs[c] : c \in CollectionIds}
TokenIds == 1..NumTokens

\* Decimal is a fixed-point number; the model keeps two fractional digits
DECIMAL_FRACTIONAL == 100

OK == "ok"

----------------------------------------------------------------------------
(* Small helpers *)

None == <<>>
Some(x) == <<x>>
IsSome(o) == Len(o) = 1
Unwrap(o) == o[1]

\* Map::save on a map kept as a function whose domain is the set of keys
MapSave(m, k, v) == [x \in (DOMAIN m) \cup {k} |-> IF x = k THEN v ELSE m[x]]
\* Map::remove
MapRemove(m, k) == [x \in (DOMAIN m) \ {k} |-> m[x]]

Locks(mint_lock, burn_lock, transfer_lock, send_lock) ==
    [mint_lock |-> mint_lock, burn_lock |-> burn_lock,
     transfer_lock |-> transfer_lock, send_lock |-> send_lock]

Coin(denom, amount) == [denom |-> denom, amount |-> amount]

\* Decimal::mul(Uint128): floor(amount * atomics / DECIMAL_FRACTIONAL)
DecimalMul(rate, amount) == (amount * rate) \div DECIMAL_FRACTIONAL

\* result of a handler: error (or OK), the world it wrote, the messages it returns
Res(err, w, msgs) == [err |-> err, w |-> w, msgs |-> msgs]
Fail(err, w) == Res(err, w, <<>>)

\* a message returned by a handler, to be dispatched by the host
Msg(kind, from, to, denom, amount, token_id, locks, recipient) ==
    [kind |-> kind, from |-> from, to |-> to, denom |-> denom, amount |-> amount,
     token_id |-> token_id, locks |-> locks, recipient |-> recipient]

NoLocks == Locks(FALSE, FALSE, FALSE, FALSE)

BankSend(from, to, denom, amount) ==
    Msg("BankSend", from, to, denom, amount, 0, NoLocks, "")

----------------------------------------------------------------------------
(* Shared helpers of the contracts (packages/utils) *)

\* the sender is the contract itself, the admin, the parent, or an operator
check_admin_privileges(sender, contract_addr, admin, parent_addr, operators) ==
    \/ sender = contract_addr
    \/ sender = admin
    \/ (IsSome(parent_addr) /\ sender = Unwrap(parent_addr))
    \/ (IsSome(operators) /\ sender \in Unwrap(operators))

\* faulty variant of check_funds: the amount is not compared
check_funds_any_amount(funds, denom, price) ==
    IF Len(funds) # 1 THEN "MissingFunds"
    ELSE IF funds[1].denom # denom THEN "InvalidDenom"
    ELSE OK

\* exactly one coin, of the wanted denom, of the wanted amount
check_funds(funds, denom, price) ==
    IF Len(funds) # 1 THEN "MissingFunds"
    ELSE IF funds[1].denom # denom THEN "InvalidDenom"
    ELSE IF funds[1].amount # price THEN "InvalidFunds"
    ELSE OK

----------------------------------------------------------------------------
(* The cw721-base primitives the token contract delegates to.  t is the     *)
(* storage of one token contract; a result is [err, t].                    *)

TRes(err, t) == [err |-> err, t |-> t]

\* the sender owns the token or holds an ApproveAll grant of its owner
cw721_check_can_send(t, sender, token_id) ==
    \/ t.tokens[token_id] = sender
    \/ <<t.tokens[token_id], sender>> \in t.operators

cw721_transfer_nft(t, sender, recipient, token_id) ==
    IF token_id \notin DOMAIN t.tokens THEN TRes("Token.NotFound", t)
    ELSE IF ~cw721_check_can_send(t, sender, token_id) THEN TRes("Token.Unauthorized", t)
    ELSE TRes(OK, [t EXCEPT !.tokens = MapSave(t.tokens, token_id, recipient)])

cw721_mint(t, sender, token_id, owner) ==
    IF sender # t.minter THEN TRes("Token.Unauthorized", t)
    ELSE IF token_id \in DOMAIN t.tokens THEN TRes("Token.Claimed", t)
    ELSE TRes(OK, [t EXCEPT !.tokens = MapSave(t.tokens, token_id, owner)])

cw721_burn(t, sender, token_id) ==
    IF token_id \notin DOMAIN t.tokens THEN TRes("Token.NotFound", t)
    ELSE IF ~cw721_check_can_send(t, sender, token_id) THEN TRes("Token.Unauthorized", t)
    ELSE TRes(OK, [t EXCEPT !.tokens = MapRemove(t.tokens, token_id)])

cw721_approve_all(t, sender, operator) ==
    TRes(OK, [t EXCEPT !.operators = t.operators \cup {<<sender, operator>>}])

----------------------------------------------------------------------------
(* The token contract (contracts/token/src/contract.rs).  self is the       *)
(* address of the contract, sender the caller of the handler.              *)

\* state after instantiate
token_instantiate(admin, creator, minter, native_denom, royalty_share, sender) ==
    [admin |-> admin, creator |-> creator, minter |-> minter,
     native_denom |-> native_denom, royalty_share |-> royalty_share,
     per_address_limit |-> None, start_time |-> None, max_token_limit |-> None,
     LOCKS |-> Locks(FALSE, FALSE, FALSE, FALSE),
     TOKEN_LOCKS |-> <<>>,
     TOKEN_IDS |-> 0,
     MINTED_TOKENS_PER_ADDR |-> <<>>,
     MINT_MODULE_ADDR |-> Some(sender),
     OPERATION_LOCK |-> FALSE,
     OPERATORS |-> None,
     CONTRACTS |-> [whitelist |-> None],
     tokens |-> <<>>,
     operators |-> {}]

token_execute_update_operators(t, self, sender, addrs) ==
    IF ~check_admin_privileges(sender, self, t.admin, t.MINT_MODULE_ADDR, t.OPERATORS)
    THEN TRes("Token.Unauthorized", t)
    ELSE TRes(OK, [t EXCEPT !.OPERATORS = Some(addrs)])

token_execute_update_locks(t, self, sender, locks) ==
    IF ~check_admin_privileges(sender, self, t.admin, t.MINT_MODULE_ADDR, None)
    THEN TRes("Token.Unauthorized", t)
    ELSE TRes(OK, [t EXCEPT !.LOCKS = locks])

\* faulty variant of token_execute_update_token_locks: any caller may set the locks
token_execute_update_token_locks_open(t, self, sender, token_id, locks) ==
    TRes(OK, [t EXCEPT !.TOKEN_LOCKS = MapSave(t.TOKEN_LOCKS, token_id, locks)])

token_execute_update_token_locks(t, self, sender, token_id, locks) ==
    IF ~check_admin_privileges(sender, self, t.admin, t.MINT_MODULE_ADDR, None)
    THEN TRes("Token.Unauthorized", t)
    ELSE TRes(OK, [t EXCEPT !.TOKEN_LOCKS = MapSave(t.TOKEN_LOCKS, token_id, locks)])

\* faulty variant of token_execute_mint: the per-address limit is not enforced
token_execute_mint_unlimited(t, self, sender, owner) ==
    LET token_id == t.TOKEN_IDS + 1
        total_minted == IF owner \in DOMAIN t.MINTED_TOKENS_PER_ADDR
                        THEN t.MINTED_TOKENS_PER_ADDR[owner] ELSE 0
    IN  IF t.OPERATION_LOCK THEN TRes("MintLocked", t)
        ELSE IF t.LOCKS.mint_lock THEN TRes("MintLocked", t)
        ELSE IF token_id \in DOMAIN t.TOKEN_LOCKS /\ t.TOKEN_LOCKS[token_id].mint_lock
             THEN TRes("MintLocked", t)
        ELSE IF IsSome(t.max_token_limit) /\ token_id > Unwrap(t.max_token_limit)
             THEN TRes("TokenLimitReached", t)
        ELSE LET r == cw721_mint(t, sender, token_id, owner)
             IN  IF r.err # OK THEN TRes(r.err, t)
                 ELSE TRes(OK, [r.t EXCEPT
                        !.MINTED_TOKENS_PER_ADDR =
                            MapSave(t.MINTED_TOKENS_PER_ADDR, owner, total_minted + 1),
                        !.TOKEN_IDS = token_id])

\* faulty variant of token_execute_mint: a lock set for the next token id is not read
token_execute_mint_no_token_lock(t, self, sender, owner) ==
    LET token_id == t.TOKEN_IDS + 1
        total_minted == IF owner \in DOMAIN t.MINTED_TOKENS_PER_ADDR
                        THEN t.MINTED_TOKENS_PER_ADDR[owner] ELSE 0
    IN  IF t.OPERATION_LOCK THEN TRes("MintLocked", t)
        ELSE IF t.LOCKS.mint_lock THEN TRes("MintLocked", t)
        ELSE IF IsSome(t.max_token_limit) /\ token_id > Unwrap(t.max_token_limit)
             THEN TRes("TokenLimitReached", t)
        ELSE IF IsSome(t.per_address_limit) /\ total_minted + 1 > Unwrap(t.per_address_limit)
             THEN TRes("TokenLimitReached", t)
        ELSE LET r == cw721_mint(t, sender, token_id, owner)
             IN  IF r.err # OK THEN TRes(r.err, t)
                 ELSE TRes(OK, [r.t EXCEPT
                        !.MINTED_TOKENS_PER_ADDR =
                            MapSave(t.MINTED_TOKENS_PER_ADDR, owner, total_minted + 1),
                        !.TOKEN_IDS = token_id])

token_execute_mint(t, self, sender, owner) ==
    LET token_id == t.TOKEN_IDS + 1
        total_minted == IF owner \in DOMAIN t.MINTED_TOKENS_PER_ADDR
                        THEN t.MINTED_TOKENS_PER_ADDR[owner] ELSE 0
    IN  IF t.OPERATION_LOCK THEN TRes("MintLocked", t)
        ELSE IF t.LOCKS.mint_lock THEN TRes("MintLocked", t)
        ELSE IF token_id \in DOMAIN t.TOKEN_LOCKS /\ t.TOKEN_LOCKS[token_id].mint_lock
             THEN TRes("MintLocked", t)
        ELSE IF IsSome(t.max_token_limit) /\ token_id > Unwrap(t.max_token_limit)
             THEN TRes("TokenLimitReached", t)
        ELSE IF IsSome(t.per_address_limit) /\ total_minted + 1 > Unwrap(t.per_address_limit)
             THEN TRes("TokenLimitReached", t)
        ELSE LET r == cw721_mint(t, sender, token_id, owner)
             IN  IF r.err # OK THEN TRes(r.err, t)
                 ELSE TRes(OK, [r.t EXCEPT
                        !.MINTED_TOKENS_PER_ADDR =
                            MapSave(t.MINTED_TOKENS_PER_ADDR, owner, total_minted + 1),
                        !.TOKEN_IDS = token_id])

\* variant of token_execute_burn that also removes the lock record of the token
token_execute_burn_removes_lock(t, self, sender, token_id) ==
    IF t.OPERATION_LOCK THEN TRes("BurnLocked", t)
    ELSE IF t.LOCKS.burn_lock THEN TRes("BurnLocked", t)
    ELSE IF token_id \in DOMAIN t.TOKEN_LOCKS /\ t.TOKEN_LOCKS[token_id].burn_lock
         THEN TRes("BurnLocked", t)
    ELSE LET r == cw721_burn(t, sender, token_id)
         IN  IF r.err # OK THEN r
             ELSE TRes(OK, [r.t EXCEPT !.TOKEN_LOCKS = MapRemove(t.TOKEN_LOCKS, token_id)])

\* faulty variant of token_execute_burn: the operation lock is not read
token_execute_burn_no_operation_lock(t, self, sender, token_id) ==
    IF t.LOCKS.burn_lock THEN TRes("BurnLocked", t)
    ELSE IF token_id \in DOMAIN t.TOKEN_LOCKS /\ t.TOKEN_LOCKS[token_id].burn_lock
         THEN TRes("BurnLocked", t)
    ELSE cw721_burn(t, sender, token_id)

token_execute_burn(t, self, sender, token_id) ==
    IF t.OPERATION_LOCK THEN TRes("BurnLocked", t)
    ELSE IF t.LOCKS.burn_lock THEN TRes("BurnLocked", t)
    ELSE IF token_id \in DOMAIN t.TOKEN_LOCKS /\ t.TOKEN_LOCKS[token_id].burn_lock
         THEN TRes("BurnLocked", t)
    ELSE cw721_burn(t, sender, token_id)

token_execute_transfer(t, self, sender, token_id, recipient) ==
    IF t.OPERATION_LOCK THEN TRes("TransferLocked", t)
    ELSE IF t.LOCKS.transfer_lock THEN TRes("TransferLocked", t)
    ELSE IF token_id \in DOMAIN t.TOKEN_LOCKS /\ t.TOKEN_LOCKS[token_id].transfer_lock
         THEN TRes("TransferLocked", t)
    ELSE cw721_transfer_nft(t, sender, recipient, token_id)

\* variant of token_execute_admin_transfer that reads the transfer locks as
\* token_execute_transfer does
token_execute_admin_transfer_locked(t, self, sender, token_id, recipient) ==
    IF ~check_admin_privileges(sender, self, t.admin, t.MINT_MODULE_ADDR, t.OPERATORS)
    THEN TRes("Token.Unauthorized", t)
    ELSE IF t.LOCKS.transfer_lock THEN TRes("TransferLocked", t)
    ELSE IF token_id \in DOMAIN t.TOKEN_LOCKS /\ t.TOKEN_LOCKS[token_id].transfer_lock
         THEN TRes("TransferLocked", t)
    ELSE cw721_transfer_nft(t, sender, recipient, token_id)

token_execute_admin_transfer(t, self, sender, token_id, recipient) ==
    IF ~check_admin_privileges(sender, self, t.admin, t.MINT_MODULE_ADDR, t.OPERATORS)
    THEN TRes("Token.Unauthorized", t)
    ELSE cw721_transfer_nft(t, sender, recipient, token_id)

\* faulty variant of token_execute_send: the lock record of the token is not read
token_execute_send_collection_only(t, self, sender, token_id, contract) ==
    IF t.OPERATION_LOCK THEN TRes("SendLocked", t)
    ELSE IF t.LOCKS.send_lock THEN TRes("SendLocked", t)
    ELSE cw721_transfer_nft(t, sender, contract, token_id)

\* send_nft of cw721-base transfers the token to the contract and calls its
\* receive hook; the hook runs as a message of the response
token_execute_send(t, self, sender, token_id, contract) ==
    IF t.OPERATION_LOCK THEN TRes("SendLocked", t)
    ELSE IF t.LOCKS.send_lock THEN TRes("SendLocked", t)
    ELSE IF token_id \in DOMAIN t.TOKEN_LOCKS /\ t.TOKEN_LOCKS[token_id].send_lock
         THEN TRes("SendLocked", t)
    ELSE cw721_transfer_nft(t, sender, contract, token_id)

token_execute_update_operation_lock(t, self, sender, lock) ==
    IF ~check_admin_privileges(sender, self, t.admin, t.MINT_MODULE_ADDR, t.OPERATORS)
    THEN TRes("Token.Unauthorized", t)
    ELSE TRes(OK, [t EXCEPT !.OPERATION_LOCK = lock])

token_execute_update_per_address_limit(t, self, sender, per_address_limit) ==
    IF ~check_admin_privileges(sender, self, t.admin, t.MINT_MODULE_ADDR, None)
    THEN TRes("Token.Unauthorized", t)
    ELSE IF IsSome(per_address_limit) /\ Unwrap(per_address_limit) = 0
         THEN TRes("InvalidPerAddressLimit", t)
    ELSE TRes(OK, [t EXCEPT !.per_address_limit = per_address_limit])

\* time is env.block.time of the invocation
token_execute_update_start_time(t, self, sender, time, start_time) ==
    IF ~check_admin_privileges(sender, self, t.admin, t.MINT_MODULE_ADDR, None)
    THEN TRes("Token.Unauthorized", t)
    ELSE IF IsSome(t.start_time) /\ time >= Unwrap(t.start_time)
         THEN TRes("AlreadyStarted", t)
    ELSE IF IsSome(start_time) /\ time > Unwrap(start_time)
         THEN TRes("InvalidStartTime", t)
    ELSE TRes(OK, [t EXCEPT !.start_time = start_time])

----------------------------------------------------------------------------
(* The world: the storage of every contract and the balances.  Handlers    *)
(* take a world w and return Res(err, w', msgs).                           *)

World == [market |-> market, tok |-> tok, mint |-> mint, bank |-> bank, ext |-> ext]

\* the host moves `amount' of `denom' between two accounts
BankMove(w, from, to, denom, amount) ==
    [w EXCEPT !.bank = [a \in DOMAIN w.bank |->
        [d \in Denoms |->
            IF d # denom \/ from = to THEN w.bank[a][d]
            ELSE IF a = from THEN w.bank[a][d] - amount
            ELSE IF a = to THEN w.bank[a][d] + amount
            ELSE w.bank[a][d]]]]

\* the funds attached to an invocation are moved to the contract before it runs
AttachFunds(w, sender, contract, funds) ==
    IF Len(funds) = 0 THEN w
    ELSE BankMove(w, sender, contract, funds[1].denom, funds[1].amount)

CanPay(w, sender, funds) ==
    IF Len(funds) = 0 THEN TRUE ELSE w.bank[sender][funds[1].denom] >= funds[1].amount

----------------------------------------------------------------------------
(* Queries the marketplace makes to the other contracts *)

\* mint module: COLLECTION_ADDRS.load
query_collection_address(w, collection_id) ==
    IF collection_id \in DOMAIN w.mint.COLLECTION_ADDRS
    THEN Some(w.mint.COLLECTION_ADDRS[collection_id]) ELSE None

\* cw721 OwnerOf
query_token_owner(w, collection_addr, token_id) ==
    IF token_id \in DOMAIN w.tok[collection_addr].tokens
    THEN Some(w.tok[collection_addr].tokens[token_id]) ELSE None

query_collection_locks(w, collection_addr) == w.tok[collection_addr].LOCKS

\* the lock record of the token; all flags false when there is none
query_token_locks(w, collection_addr, token_id) ==
    IF token_id \in DOMAIN w.tok[collection_addr].TOKEN_LOCKS
    THEN w.tok[collection_addr].TOKEN_LOCKS[token_id] ELSE NoLocks

----------------------------------------------------------------------------
(* The marketplace contract (contracts/marketplace/src/contract.rs) *)

\* faulty variant of get_collection_address: the blacklist registry is read too
get_collection_address_any_registry(w, collection_id) ==
    IF collection_id \in DOMAIN w.mint.COLLECTION_ADDRS
    THEN Some(w.mint.COLLECTION_ADDRS[collection_id])
    ELSE IF collection_id \in DOMAIN w.mint.BLACKLIST_COLLECTION_ADDRS
         THEN Some(w.mint.BLACKLIST_COLLECTION_ADDRS[collection_id])
    ELSE None

get_collection_address(w, collection_id) == query_collection_address(w, collection_id)

\* faulty variant of check_locks: the burn lock is looked at first
check_locks_burn_first(locks) ==
    IF locks.burn_lock THEN "BurnLocked"
    ELSE IF locks.transfer_lock THEN "TransferLocked"
    ELSE IF locks.send_lock THEN "SendLocked"
    ELSE OK

check_locks(locks) ==
    IF locks.transfer_lock THEN "TransferLocked"
    ELSE IF locks.send_lock THEN "SendLocked"
    ELSE IF locks.burn_lock THEN "BurnLocked"
    ELSE OK

FixedListing(collection_id, token_id, price, owner) ==
    [collection_id |-> collection_id, token_id |-> token_id, price |-> price, owner |-> owner]

\* faulty variant of ListLocks: a listed token can still be transferred
ListLocksTransferOpen == Locks(FALSE, TRUE, FALSE, TRUE)

\* faulty variant of ListLocks: the send lock is left open
ListLocksSendOpen == Locks(FALSE, TRUE, TRUE, FALSE)

\* the locks ListFixedToken puts on the token
ListLocks == Locks(FALSE, TRUE, TRUE, TRUE)
\* faulty variant of UnlockLocks: the mint lock is set
UnlockLocksMintSet == Locks(TRUE, FALSE, FALSE, FALSE)

\* faulty variant of UnlockLocks: the transfer lock is left set
UnlockLocksKeepTransfer == Locks(FALSE, FALSE, TRUE, FALSE)

\* the locks DelistFixedToken and Buy put on the token
UnlockLocks == Locks(FALSE, FALSE, FALSE, FALSE)

UpdateTokenLockMsg(collection_addr, token_id, locks) ==
    Msg("UpdateTokenLock", MARKET, collection_addr, "", 0, token_id, locks, "")

\* faulty variant of AdminTransferNftMsg: the token goes to the marketplace
AdminTransferNftMsgToSelf(collection_addr, token_id, recipient) ==
    Msg("AdminTransferNft", MARKET, collection_addr, "", 0, token_id, NoLocks, MARKET)

AdminTransferNftMsg(collection_addr, token_id, recipient) ==
    Msg("AdminTransferNft", MARKET, collection_addr, "", 0, token_id, NoLocks, recipient)

DistributeMsg(denom, amount) ==
    Msg("Distribute", MARKET, KOMPLE_FEE_CONTRACT_ADDR, denom, amount, 0, NoLocks, "")

\* faulty variant of list_checks: the owner is not checked
list_checks_any_sender(w, addr, owner, sender, token_id) ==
    IF check_locks(query_collection_locks(w, addr)) # OK
    THEN check_locks(query_collection_locks(w, addr))
    ELSE check_locks(query_token_locks(w, addr, token_id))

\* the checks of ListFixedToken: the owner, the collection locks, the token locks
list_checks(w, addr, owner, sender, token_id) ==
    IF owner # sender THEN "Unauthorized"
    ELSE IF check_locks(query_collection_locks(w, addr)) # OK
         THEN check_locks(query_collection_locks(w, addr))
    ELSE check_locks(query_token_locks(w, addr, token_id))

execute_list_fixed_token(w, sender, collection_id, token_id, price) ==
    LET collection_addr == get_collection_address(w, collection_id) IN
    IF ~IsSome(collection_addr) THEN Fail("Std.NotFound", w)
    ELSE LET addr == Unwrap(collection_addr)
             owner == query_token_owner(w, addr, token_id) IN
    IF ~IsSome(owner) THEN Fail("Std.NotFound", w)
    ELSE IF list_checks(w, addr, Unwrap(owner), sender, token_id) # OK
         THEN Fail(list_checks(w, addr, Unwrap(owner), sender, token_id), w)
    ELSE Res(OK,
             [w EXCEPT !.market.FIXED_LISTING =
                 MapSave(w.market.FIXED_LISTING, <<collection_id, token_id>>,
                         FixedListing(collection_id, token_id, price, Unwrap(owner)))],
             <<UpdateTokenLockMsg(addr, token_id, ListLocks)>>)

\* faulty variant of delist_checks: the owner is not checked
delist_checks_any_sender(w, owner, sender, collection_id, token_id) ==
    IF <<collection_id, token_id>> \notin DOMAIN w.market.FIXED_LISTING THEN "NotListed"
    ELSE OK

\* faulty variant of delist_checks: a token without a listing is unlocked too
delist_checks_unlisted_too(w, owner, sender, collection_id, token_id) ==
    IF owner # sender THEN "Unauthorized" ELSE OK

\* the checks of DelistFixedToken: the owner, then the listing
delist_checks(w, owner, sender, collection_id, token_id) ==
    IF owner # sender THEN "Unauthorized"
    ELSE IF <<collection_id, token_id>> \notin DOMAIN w.market.FIXED_LISTING THEN "NotListed"
    ELSE OK

execute_delist_fixed_token(w, sender, collection_id, token_id) ==
    LET collection_addr == get_collection_address(w, collection_id) IN
    IF ~IsSome(collection_addr) THEN Fail("Std.NotFound", w)
    ELSE LET addr == Unwrap(collection_addr)
             owner == query_token_owner(w, addr, token_id) IN
    IF ~IsSome(owner) THEN Fail("Std.NotFound", w)
    ELSE IF delist_checks(w, Unwrap(owner), sender, collection_id, token_id) # OK
         THEN Fail(delist_checks(w, Unwrap(owner), sender, collection_id, token_id), w)
    ELSE Res(OK,
             [w EXCEPT !.market.FIXED_LISTING =
                 MapRemove(w.market.FIXED_LISTING, <<collection_id, token_id>>)],
             <<UpdateTokenLockMsg(addr, token_id, UnlockLocks)>>)

\* faulty variant of execute_update_price: the owner is not checked
execute_update_price_any_sender(w, sender, collection_id, token_id, price) ==
    LET collection_addr == get_collection_address(w, collection_id) IN
    IF ~IsSome(collection_addr) THEN Fail("Std.NotFound", w)
    ELSE IF ~IsSome(query_token_owner(w, Unwrap(collection_addr), token_id))
         THEN Fail("Std.NotFound", w)
    ELSE IF <<collection_id, token_id>> \notin DOMAIN w.market.FIXED_LISTING
         THEN Fail("Std.NotFound", w)
    ELSE Res(OK,
             [w EXCEPT !.market.FIXED_LISTING[<<collection_id, token_id>>].price = price],
             <<>>)

execute_update_price(w, sender, collection_id, token_id, price) ==
    LET collection_addr == get_collection_address(w, collection_id) IN
    IF ~IsSome(collection_addr) THEN Fail("Std.NotFound", w)
    ELSE LET addr == Unwrap(collection_addr)
             owner == query_token_owner(w, addr, token_id) IN
    IF ~IsSome(owner) THEN Fail("Std.NotFound", w)
    ELSE IF Unwrap(owner) # sender THEN Fail("Unauthorized", w)
    ELSE IF <<collection_id, token_id>> \notin DOMAIN w.market.FIXED_LISTING
         THEN Fail("Std.NotFound", w)
    ELSE Res(OK,
             [w EXCEPT !.market.FIXED_LISTING[<<collection_id, token_id>>].price = price],
             <<>>)

\* the royalty fee and the royalty message, when the collection has a royalty share
RoyaltyFee(config, price) ==
    IF IsSome(config.royalty_share) THEN DecimalMul(Unwrap(config.royalty_share), price) ELSE 0

\* faulty variant of RoyaltyMsgs: the royalty is withheld but never sent
RoyaltyMsgsNone(config, price) == <<>>

RoyaltyMsgs(config, price) ==
    IF IsSome(config.royalty_share)
    THEN <<BankSend(MARKET, config.creator, config.native_denom, RoyaltyFee(config, price))>>
    ELSE <<>>

\* faulty variant of MarketplaceFee: the fee is rounded up
MarketplaceFeeCeil(config, price) ==
    (config.fee_percentage * price + DECIMAL_FRACTIONAL - 1) \div DECIMAL_FRACTIONAL

\* the marketplace's own cut
MarketplaceFee(config, price) == DecimalMul(config.fee_percentage, price)

\* the messages of a Buy, in the order the response carries them
BuyMsgs(config, token_config, fixed_listing, collection_addr, sender, token_id, payout) ==
    RoyaltyMsgs(token_config, fixed_listing.price)
    \o <<BankSend(MARKET, fixed_listing.owner, config.native_denom, payout),
         DistributeMsg(config.native_denom, MarketplaceFee(config, fixed_listing.price))>>
    \o <<AdminTransferNftMsg(collection_addr, token_id, sender),
         UpdateTokenLockMsg(collection_addr, token_id, UnlockLocks)>>

\* faulty variant of buy_checks: the funds are checked first
buy_checks_funds_first(config, fixed_listing, sender, funds) ==
    IF check_funds(funds, config.native_denom, fixed_listing.price) # OK
    THEN check_funds(funds, config.native_denom, fixed_listing.price)
    ELSE IF fixed_listing.owner = sender THEN "SelfPurchase"
    ELSE OK

\* the checks of Buy: the buyer is not the seller, then the sent funds
buy_checks(config, fixed_listing, sender, funds) ==
    IF fixed_listing.owner = sender THEN "SelfPurchase"
    ELSE check_funds(funds, config.native_denom, fixed_listing.price)

\* faulty variant of execute_buy_fixed_listing: the listing is not removed
execute_buy_fixed_listing_keeps_listing(w, sender, funds, collection_id, token_id) ==
    LET config == w.market.CONFIG IN
    IF <<collection_id, token_id>> \notin DOMAIN w.market.FIXED_LISTING
    THEN Fail("Std.NotFound", w)
    ELSE LET fixed_listing == w.market.FIXED_LISTING[<<collection_id, token_id>>] IN
    IF buy_checks(config, fixed_listing, sender, funds) # OK
    THEN Fail(buy_checks(config, fixed_listing, sender, funds), w)
    ELSE LET collection_addr == query_collection_address(w, collection_id) IN
    IF ~IsSome(collection_addr) THEN Fail("Std.NotFound", w)
    ELSE LET addr == Unwrap(collection_addr)
             token_config == w.tok[addr]
             fee == MarketplaceFee(config, fixed_listing.price)
             royalty_fee == RoyaltyFee(token_config, fixed_listing.price) IN
    IF fee + royalty_fee > fixed_listing.price THEN Fail("Overflow", w)
    ELSE Res(OK, w,
             BuyMsgs(config, token_config, fixed_listing, addr, sender, token_id,
                     fixed_listing.price - (fee + royalty_fee)))

\* faulty variant of execute_buy_fixed_listing: the payout saturates at zero
\* instead of failing when the fees exceed the price
execute_buy_fixed_listing_saturating(w, sender, funds, collection_id, token_id) ==
    LET config == w.market.CONFIG IN
    IF <<collection_id, token_id>> \notin DOMAIN w.market.FIXED_LISTING
    THEN Fail("Std.NotFound", w)
    ELSE LET fixed_listing == w.market.FIXED_LISTING[<<collection_id, token_id>>] IN
    IF buy_checks(config, fixed_listing, sender, funds) # OK
    THEN Fail(buy_checks(config, fixed_listing, sender, funds), w)
    ELSE LET collection_addr == query_collection_address(w, collection_id) IN
    IF ~IsSome(collection_addr) THEN Fail("Std.NotFound", w)
    ELSE LET addr == Unwrap(collection_addr)
             token_config == w.tok[addr]
             fee == MarketplaceFee(config, fixed_listing.price)
             royalty_fee == RoyaltyFee(token_config, fixed_listing.price) IN
         Res(OK,
             [w EXCEPT !.market.FIXED_LISTING =
                 MapRemove(w.market.FIXED_LISTING, <<collection_id, token_id>>)],
             BuyMsgs(config, token_config, fixed_listing, addr, sender, token_id,
                     IF fee + royalty_fee > fixed_listing.price THEN 0
                     ELSE fixed_listing.price - (fee + royalty_fee)))

execute_buy_fixed_listing(w, sender, funds, collection_id, token_id) ==
    LET config == w.market.CONFIG IN
    IF <<collection_id, token_id>> \notin DOMAIN w.market.FIXED_LISTING
    THEN Fail("Std.NotFound", w)
    ELSE LET fixed_listing == w.market.FIXED_LISTING[<<collection_id, token_id>>] IN
    IF buy_checks(config, fixed_listing, sender, funds) # OK
    THEN Fail(buy_checks(config, fixed_listing, sender, funds), w)
    ELSE LET collection_addr == query_collection_address(w, collection_id) IN
    IF ~IsSome(collection_addr) THEN Fail("Std.NotFound", w)
    ELSE LET addr == Unwrap(collection_addr)
             token_config == w.tok[addr]
             fee == MarketplaceFee(config, fixed_listing.price)
             royalty_fee == RoyaltyFee(token_config, fixed_listing.price) IN
    IF fee + royalty_fee > fixed_listing.price THEN Fail("Overflow", w)
    ELSE Res(OK,
             [w EXCEPT !.market.FIXED_LISTING =
                 MapRemove(w.market.FIXED_LISTING, <<collection_id, token_id>>)],
             BuyMsgs(config, token_config, fixed_listing, addr, sender, token_id,
                     fixed_listing.price - (fee + royalty_fee)))

----------------------------------------------------------------------------
(* The host: dispatch of the messages a handler returned, and the          *)
(* all-or-nothing outcome of a top-level invocation.  env holds what the   *)
(* collaborators outside the model decide: whether the fee contract's      *)
(* Distribute succeeds, and whether the chain accepts a zero-amount send.  *)

Envs == [fee_ok : BOOLEAN, zero_ok : BOOLEAN]
\* for invocations that reach neither the bank nor the fee contract
AnyEnv == [fee_ok |-> TRUE, zero_ok |-> TRUE]

\* write back the storage of one token contract
WithTok(w, addr, r) == [err |-> r.err, w |-> [w EXCEPT !.tok[addr] = r.t]]

DispatchBank(w, m, env) ==
    IF m.amount = 0 /\ ~env.zero_ok THEN [err |-> "Bank.ZeroAmount", w |-> w]
    ELSE IF w.bank[m.from][m.denom] < m.amount THEN [err |-> "Bank.Insufficient", w |-> w]
    ELSE [err |-> OK, w |-> BankMove(w, m.from, m.to, m.denom, m.amount)]

\* the funds travel with the call; the fee contract then shares them out
DispatchDistribute(w, m, env) ==
    LET paid == DispatchBank(w, m, env) IN
    IF paid.err # OK THEN paid
    ELSE IF ~env.fee_ok THEN [err |-> "Fee.Error", w |-> w]
    ELSE paid

Dispatch(w, m, env) ==
    CASE m.kind = "BankSend" -> DispatchBank(w, m, env)
      [] m.kind = "Distribute" -> DispatchDistribute(w, m, env)
      [] m.kind = "AdminTransferNft" ->
            WithTok(w, m.to, token_execute_admin_transfer(
                        w.tok[m.to], m.to, m.from, m.token_id, m.recipient))
      [] m.kind = "UpdateTokenLock" ->
            WithTok(w, m.to, token_execute_update_token_locks(
                        w.tok[m.to], m.to, m.from, m.token_id, m.locks))

RECURSIVE DispatchAll(_, _, _)
DispatchAll(w, msgs, env) ==
    IF Len(msgs) = 0 THEN [err |-> OK, w |-> w]
    ELSE LET d == Dispatch(w, Head(msgs), env) IN
         IF d.err # OK THEN d ELSE DispatchAll(d.w, Tail(msgs), env)

\* faulty variant of Commit: what was done before the failing message is kept
CommitNoRollback(w0, r, env) ==
    IF r.err # OK THEN Res(r.err, w0, <<>>)
    ELSE LET d == DispatchAll(r.w, r.msgs, env) IN
         IF d.err # OK THEN Res(d.err, d.w, <<>>)
         ELSE Res(OK, d.w, r.msgs)

\* outcome of an invocation whose handler returned r, started in world w0
Commit(w0, r, env) ==
    IF r.err # OK THEN Res(r.err, w0, <<>>)
    ELSE LET d == DispatchAll(r.w, r.msgs, env) IN
         IF d.err # OK THEN Res(d.err, w0, <<>>)
         ELSE Res(OK, d.w, r.msgs)

\* outcome of a direct call of a token contract handler
CommitTok(w0, addr, r) ==
    IF r.err # OK THEN Res(r.err, w0, <<>>)
    ELSE Res(OK, [w0 EXCEPT !.tok[addr] = r.t], <<>>)

Last(op, sender, collection_id, token_id, price, funds, out) ==
    [op |-> op, sender |-> sender, collection_id |-> collection_id,
     token_id |-> token_id, price |-> price, funds |-> funds,
     err |-> out.err, msgs |-> out.msgs]

\* the world after the invocation, and its recorded outcome
Apply(out, l) ==
    /\ market' = out.w.market
    /\ tok' = out.w.tok
    /\ mint' = out.w.mint
    /\ bank' = out.w.bank
    /\ ext' = out.w.ext
    /\ last' = l

----------------------------------------------------------------------------
(* Inputs *)

LowPrice == MaxPrice - 7
Prices == {LowPrice, MaxPrice}
FundsChoices == {<<>>, <<Coin(NATIVE_DENOM, LowPrice)>>, <<Coin(NATIVE_DENOM, MaxPrice)>>,
                 <<Coin(TEST_DENOM, MaxPrice)>>}
\* The admin of a collection is a parameter of its instantiation.  The token
\* contract lets only itself, its admin and its parent update the locks of a
\* token (execute_update_token_locks passes no operators), so the marketplace
\* can list on the collections whose admin it is, and on no other.
TokenAdmins == {ADMIN, MARKET}
\* Locks(mint, burn, transfer, send)
CollectionLockChoices == {NoLocks, Locks(FALSE, TRUE, FALSE, FALSE), Locks(FALSE, TRUE, FALSE, TRUE)}
TokenLockChoices == {NoLocks, Locks(FALSE, FALSE, TRUE, FALSE), Locks(FALSE, TRUE, FALSE, TRUE)}

----------------------------------------------------------------------------
(* Actions: one per top-level invocation *)

\* the record of a ListFixedToken keeps the lock records of the collection
\* as they were before it
ListFixedToken(sender, collection_id, token_id, price) ==
    LET out == Commit(World,
                      execute_list_fixed_token(World, sender, collection_id, token_id, price),
                      AnyEnv)
    IN  Apply(out, [op |-> "ListFixedToken", sender |-> sender,
                    collection_id |-> collection_id, token_id |-> token_id,
                    price |-> price, funds |-> <<>>, err |-> out.err, msgs |-> out.msgs,
                    before |-> tok[ChildAddrs[collection_id]].TOKEN_LOCKS])

DelistFixedToken(sender, collection_id, token_id) ==
    LET out == Commit(World,
                      execute_delist_fixed_token(World, sender, collection_id, token_id),
                      AnyEnv)
    IN  Apply(out, Last("DelistFixedToken", sender, collection_id, token_id, 0, <<>>, out))

UpdatePrice(sender, collection_id, token_id, price) ==
    LET out == Commit(World,
                      execute_update_price(World, sender, collection_id, token_id, price),
                      AnyEnv)
    IN  Apply(out, Last("UpdatePrice", sender, collection_id, token_id, price, <<>>, out))

\* the host rejects an invocation whose sender cannot pay the attached funds;
\* what the bank and the fee contract decide matters once there are messages
Buy(sender, funds, collection_id, token_id) ==
    /\ CanPay(World, sender, funds)
    /\ LET w1 == AttachFunds(World, sender, MARKET, funds)
           r == execute_buy_fixed_listing(w1, sender, funds, collection_id, token_id)
       IN  \E env \in (IF r.err = OK THEN Envs ELSE {AnyEnv}) :
             LET out == Commit(World, r, env)
             IN  Apply(out, Last("Buy", sender, collection_id, token_id, 0, funds, out))

\* direct invocations of a token contract; only the operation is recorded, and
\* an invocation that fails, which changes nothing, is not a step
TokenOp(op, collection_id, r) ==
    LET out == CommitTok(World, ChildAddrs[collection_id], r)
    IN  out.err = OK /\ Apply(out, Last(op, "", collection_id, 0, 0, <<>>, out))

\* the mint module is the minter of the collection
MintToken(c, owner) ==
    /\ tok[ChildAddrs[c]].TOKEN_IDS < NumTokens
    /\ TokenOp("Mint", c, token_execute_mint(tok[ChildAddrs[c]], ChildAddrs[c], MINT_MODULE, owner))

UpdateTokenLock(sender, c, token_id, locks) ==
    TokenOp("UpdateTokenLock", c,
            token_execute_update_token_locks(tok[ChildAddrs[c]], ChildAddrs[c], sender, token_id, locks))

UpdateLocks(sender, c, locks) ==
    TokenOp("UpdateLocks", c,
            token_execute_update_locks(tok[ChildAddrs[c]], ChildAddrs[c], sender, locks))

\* UpdateOperators and AdminTransferNft sent directly are not part of Next: no
\* user is privileged on a collection the marketplace can list on, and the
\* marketplace sends AdminTransferNft as a message of Buy
UpdateOperators(sender, c, addrs) ==
    TokenOp("UpdateOperators", c,
            token_execute_update_operators(tok[ChildAddrs[c]], ChildAddrs[c], sender, addrs))

ApproveAll(sender, c, operator) ==
    TokenOp("ApproveAll", c, cw721_approve_all(tok[ChildAddrs[c]], sender, operator))

TransferNft(sender, c, token_id, recipient) ==
    TokenOp("TransferNft", c,
            token_execute_transfer(tok[ChildAddrs[c]], ChildAddrs[c], sender, token_id, recipient))

AdminTransferNft(sender, c, token_id, recipient) ==
    TokenOp("AdminTransferNft", c,
            token_execute_admin_transfer(tok[ChildAddrs[c]], ChildAddrs[c], sender, token_id, recipient))

Burn(sender, c, token_id) ==
    TokenOp("Burn", c, token_execute_burn(tok[ChildAddrs[c]], ChildAddrs[c], sender, token_id))

----------------------------------------------------------------------------
(* Initial states and specifications *)

NoLast == [op |-> "Init", sender |-> "", collection_id |-> 0, token_id |-> 0,
           price |-> 0, funds |-> <<>>, err |-> OK, msgs |-> <<>>]

InitMarket(fee_percentage) ==
    [CONFIG |-> [admin |-> ADMIN, fee_percentage |-> fee_percentage,
                 native_denom |-> NATIVE_DENOM],
     HUB_ADDR |-> HUB,
     FIXED_LISTING |-> <<>>]

InitMint ==
    [COLLECTION_ID |-> Cardinality(CollectionIds),
     COLLECTION_ADDRS |-> [c \in CollectionIds |-> ChildAddrs[c]],
     BLACKLIST_COLLECTION_ADDRS |-> <<>>]

\* no module registered with the hub, no fee set, no whitelist contract
NoExt == [modules |-> <<>>, FIXED_FEES |-> <<>>, whitelists |-> <<>>]

InitBank ==
    [a \in Addrs \cup CollectionAddrs |->
        [d \in Denoms |-> IF a \in Users THEN InitBalance ELSE 0]]

\* the contracts as instantiated: the hub has created the mint module and the
\* marketplace, and the mint module has created the collections
Init ==
    /\ market = InitMarket(50)
    /\ \E a \in TokenAdmins :
         tok = [addr \in CollectionAddrs |->
                   token_instantiate(a, ADMIN, MINT_MODULE, NATIVE_DENOM, Some(25), MINT_MODULE)]
    /\ mint = InitMint
    /\ bank = InitBank
    /\ ext = NoExt
    /\ last = NoLast

MarketNext ==
    \E sender \in Users, c \in CollectionIds, t \in TokenIds :
        \/ \E price \in Prices : ListFixedToken(sender, c, t, price)
        \/ DelistFixedToken(sender, c, t)
        \/ \E price \in Prices : UpdatePrice(sender, c, t, price)
        \/ \E funds \in FundsChoices : Buy(sender, funds, c, t)

TokenNext ==
    \E c \in CollectionIds :
        \/ MintToken(c, USER)
        \/ \E sender \in {USER, ADMIN}, t \in TokenIds, locks \in TokenLockChoices :
              UpdateTokenLock(sender, c, t, locks)
        \/ \E sender \in {USER, ADMIN}, locks \in CollectionLockChoices :
              UpdateLocks(sender, c, locks)
        \/ \E u \in Users : ApproveAll(u, c, MARKET)
        \/ \E u \in Users, t \in TokenIds : \E recipient \in Users \ {u} :
              TransferNft(u, c, t, recipient)
        \/ \E u \in Users, t \in TokenIds : Burn(u, c, t)

Next == MarketNext \/ TokenNext

Spec == Init /\ [][Next]_vars

----------------------------------------------------------------------------
(* The marketplace alone: every token is minted, and only ListFixedToken,  *)
(* DelistFixedToken and Buy are invoked.                                    *)

\* the token contract after minting one token to each of `owners', in order
RECURSIVE MintedTo(_, _, _)
MintedTo(t, self, owners) ==
    IF Len(owners) = 0 THEN t
    ELSE MintedTo(token_execute_mint(t, self, t.minter, Head(owners)).t, self, Tail(owners))

\* ... and after each of `approvers' has sent ApproveAll for the marketplace
ApprovedBy(t, approvers) == [t EXCEPT !.operators = {<<u, MARKET>> : u \in approvers}]

InitTok(admin, royalty_share, owners, approvers) ==
    [addr \in CollectionAddrs |->
        ApprovedBy(MintedTo(token_instantiate(admin, ADMIN, MINT_MODULE, NATIVE_DENOM,
                                              royalty_share, MINT_MODULE),
                            addr, owners),
                   approvers)]

InitMarketOnly ==
    /\ market = InitMarket(50)
    /\ \E a \in TokenAdmins, owners \in [TokenIds -> Users], approvers \in SUBSET Users :
         tok = InitTok(a, Some(25), owners, approvers)
    /\ mint = InitMint
    /\ bank = InitBank
    /\ ext = NoExt
    /\ last = NoLast

MarketOnlyNext ==
    \E sender \in Users, c \in CollectionIds, t \in TokenIds :
        \/ \E price \in Prices : ListFixedToken(sender, c, t, price)
        \/ DelistFixedToken(sender, c, t)
        \/ \E funds \in FundsChoices : Buy(sender, funds, c, t)

SpecMarket == InitMarketOnly /\ [][MarketOnlyNext]_vars

----------------------------------------------------------------------------
(* The split of the price: USER has listed token 1 of collection 1 at any  *)
(* price, under any fee rate and royalty share, and RANDOM, who holds      *)
(* exactly the price, buys it.                                              *)

ExamplePrice == 1000
SplitPrices == (1..MaxPrice) \cup {ExamplePrice}
SplitFeeRates == {0, 4, 8, 33, 50}
SplitRoyaltyShares == {None, Some(0), Some(10), Some(25), Some(60)}
SplitFunds == {<<Coin(NATIVE_DENOM, a)>> : a \in SplitPrices}

InitSplit ==
    \E p \in SplitPrices, f \in SplitFeeRates, r \in SplitRoyaltyShares,
       approvers \in {{}, {USER}} :
        LET w0 == [market |-> InitMarket(f),
                   tok |-> InitTok(MARKET, r, <<USER>>, approvers),
                   mint |-> InitMint,
                   ext |-> NoExt,
                   bank |-> [a \in Addrs \cup CollectionAddrs |->
                               [d \in Denoms |->
                                   IF a = RANDOM /\ d = NATIVE_DENOM THEN p ELSE 0]]]
            listed == Commit(w0, execute_list_fixed_token(w0, USER, 1, 1, p), AnyEnv)
        IN  /\ market = listed.w.market
            /\ tok = listed.w.tok
            /\ mint = listed.w.mint
            /\ bank = listed.w.bank
            /\ ext = listed.w.ext
            /\ last = Last("ListFixedToken", USER, 1, 1, p, <<>>, listed)

SplitNext ==
    \E funds \in SplitFunds : Buy(RANDOM, funds, 1, 1)

SpecSplit == InitSplit /\ [][SplitNext]_vars

----------------------------------------------------------------------------
(* Properties.  A property of one invocation is stated on the step that    *)
(* ran it: `last'' names the invocation and its outcome, the unprimed      *)
(* variables are the state it started from.                                 *)

Listed(c, t) == <<c, t>> \in DOMAIN market.FIXED_LISTING
ListingAt(c, t) == market.FIXED_LISTING[<<c, t>>]
HasToken(c, t) == t \in DOMAIN tok[ChildAddrs[c]].tokens
OwnerAt(c, t) == tok[ChildAddrs[c]].tokens[t]
HasLockRecord(c, t) == t \in DOMAIN tok[ChildAddrs[c]].TOKEN_LOCKS
LockRecord(c, t) == tok[ChildAddrs[c]].TOKEN_LOCKS[t]

\* the token's transfer, send and burn locks are all true
LockedForSale(c, t) ==
    /\ HasLockRecord(c, t)
    /\ LockRecord(c, t).transfer_lock
    /\ LockRecord(c, t).send_lock
    /\ LockRecord(c, t).burn_lock

\* the token's transfer, send and burn locks are all false
FreeToMove(c, t) ==
    HasLockRecord(c, t) =>
        /\ ~LockRecord(c, t).transfer_lock
        /\ ~LockRecord(c, t).send_lock
        /\ ~LockRecord(c, t).burn_lock

\* the step ran the marketplace operation `op'
Ran(op) == last'.op = op
\* the step changed nothing but the recorded outcome
NothingChanged ==
    market' = market /\ tok' = tok /\ bank' = bank /\ mint' = mint /\ ext' = ext

\* C1: after any sequence of ListFixedToken, DelistFixedToken and Buy, a fixed
\* listing exists for (collection, token) exactly when the token's transfer,
\* send and burn locks are all true.
C1_ListingIffLocked ==
    \A c \in CollectionIds, t \in TokenIds : Listed(c, t) <=> LockedForSale(c, t)

\* a token that was listed, bought and listed again by its new owner
C1_Witness ==
    /\ last.op = "ListFixedToken" /\ last.err = OK /\ last.sender = RANDOM
    /\ Listed(last.collection_id, last.token_id)
    /\ LockedForSale(last.collection_id, last.token_id)
    /\ bank[RANDOM][NATIVE_DENOM] < InitBalance

\* the sum of the amounts of the bank and fee messages of a response
RECURSIVE SumAmounts(_)
SumAmounts(msgs) ==
    IF Len(msgs) = 0 THEN 0
    ELSE (IF Head(msgs).kind \in {"BankSend", "Distribute"} THEN Head(msgs).amount ELSE 0)
         + SumAmounts(Tail(msgs))

\* C2: in every successful Buy the amounts sent out (royalty, payout, fee) sum
\* to exactly the listing price: nothing of the price stays in the marketplace.
C2_SplitConserved ==
    [][(Ran("Buy") /\ last'.err = OK) =>
          /\ SumAmounts(last'.msgs) = ListingAt(last'.collection_id, last'.token_id).price
          /\ bank'[MARKET] = bank[MARKET]]_vars

\* a Buy in which the fee, the royalty and the payout are all positive
C2_Witness ==
    /\ last.op = "Buy" /\ last.err = OK
    /\ Len(last.msgs) = 5
    /\ \A i \in 1..3 : last.msgs[i].amount > 0

\* x = floor(p * rate), rate in hundredths
IsFloorOf(x, p, rate) ==
    /\ x * DECIMAL_FRACTIONAL <= p * rate
    /\ p * rate < (x + 1) * DECIMAL_FRACTIONAL

\* C3: in a successful Buy the fee contract receives floor(price * fee_percentage),
\* the creator receives floor(price * royalty_share), or nothing when no royalty
\* share is configured, and the seller receives the price minus both; price 1000
\* at 4% pays 960 and 40, and with a royalty of 10% it pays 860, 100 and 40.
C3_SplitAmounts ==
    [][(Ran("Buy") /\ last'.err = OK) =>
          LET listing == ListingAt(last'.collection_id, last'.token_id)
              p == listing.price
              f == market.CONFIG.fee_percentage
              r == tok[ChildAddrs[last'.collection_id]].royalty_share
              creator == tok[ChildAddrs[last'.collection_id]].creator
              fee == bank'[KOMPLE_FEE_CONTRACT_ADDR][NATIVE_DENOM]
                       - bank[KOMPLE_FEE_CONTRACT_ADDR][NATIVE_DENOM]
              royalty == bank'[creator][NATIVE_DENOM] - bank[creator][NATIVE_DENOM]
              payout == bank'[listing.owner][NATIVE_DENOM] - bank[listing.owner][NATIVE_DENOM]
          IN  /\ IsFloorOf(fee, p, f)
              /\ IF r = None THEN royalty = 0 ELSE IsFloorOf(royalty, p, r[1])
              /\ payout = p - fee - royalty
              /\ (p = 1000 /\ f = 4 /\ r = None) => (payout = 960 /\ fee = 40)
              /\ (p = 1000 /\ f = 4 /\ r = <<10>>) =>
                     (payout = 860 /\ royalty = 100 /\ fee = 40)]_vars

\* the example of the specification: 1000 at 4% with a royalty of 10%
C3_Witness ==
    /\ last.op = "Buy" /\ last.err = OK
    /\ bank[USER][NATIVE_DENOM] = 860
    /\ bank[ADMIN][NATIVE_DENOM] = 100
    /\ bank[KOMPLE_FEE_CONTRACT_ADDR][NATIVE_DENOM] = 40

\* C4: after a successful Buy the listing is gone, the buyer owns the token and
\* the token's transfer, send and burn locks are all false.
C4_AfterBuy ==
    (last.op = "Buy" /\ last.err = OK) =>
        /\ ~Listed(last.collection_id, last.token_id)
        /\ HasToken(last.collection_id, last.token_id)
        /\ OwnerAt(last.collection_id, last.token_id) = last.sender
        /\ FreeToMove(last.collection_id, last.token_id)

\* RANDOM has bought a token that USER had listed
C4_Witness ==
    /\ last.op = "Buy" /\ last.err = OK /\ last.sender = RANDOM
    /\ OwnerAt(last.collection_id, last.token_id) = RANDOM
    /\ HasLockRecord(last.collection_id, last.token_id)
    /\ bank[USER][NATIVE_DENOM] > InitBalance

\* the errors a message of a Buy can fail with when it is dispatched
DispatchErrors ==
    {"Bank.ZeroAmount", "Bank.Insufficient", "Fee.Error", "Token.Unauthorized", "Token.NotFound"}

\* C5: when a message emitted by Buy fails, the Buy fails as a whole: the listing,
\* the token's owner and locks and every balance are as they were.
C5_BuyAllOrNothing ==
    [][(Ran("Buy") /\ last'.err \in DispatchErrors) => NothingChanged]_vars

\* the fourth message, the transfer of the token, fails after the three payments
C5_Witness ==
    /\ last.op = "Buy" /\ last.err = "Token.Unauthorized"
    /\ Listed(last.collection_id, last.token_id)
    /\ Len(last.funds) = 1
    /\ last.funds[1].amount = ListingAt(last.collection_id, last.token_id).price

\* the step ran `op' on a token that was listed when it started
RanOnListed(op) ==
    /\ Ran(op)
    /\ Listed(last'.collection_id, last'.token_id)

\* the step ran `op' on a token that existed when it started
RanOnToken(op) ==
    /\ Ran(op)
    /\ HasToken(last'.collection_id, last'.token_id)

\* C6: a Buy of a listed token by someone other than the seller fails with
\* MissingFunds when no funds are attached, InvalidDenom when the coin is not of
\* the marketplace's denom and InvalidFunds when its amount is not the price;
\* the listing, the token and the balances are then as they were.
C6_BuyFunds ==
    [][(/\ RanOnListed("Buy")
        /\ last'.sender # ListingAt(last'.collection_id, last'.token_id).owner) =>
          LET price == ListingAt(last'.collection_id, last'.token_id).price
              funds == last'.funds
              expected ==
                  IF Len(funds) = 0 THEN "MissingFunds"
                  ELSE IF funds[1].denom # market.CONFIG.native_denom THEN "InvalidDenom"
                  ELSE IF funds[1].amount # price THEN "InvalidFunds"
                  ELSE OK
          IN  /\ expected # OK => (last'.err = expected /\ NothingChanged)
              /\ last'.err \in {"MissingFunds", "InvalidDenom", "InvalidFunds"} =>
                     last'.err = expected]_vars

\* the right denom but not the price
C6_Witness ==
    /\ last.op = "Buy" /\ last.err = "InvalidFunds"
    /\ Listed(last.collection_id, last.token_id)
    /\ last.funds[1].denom = NATIVE_DENOM
    /\ last.funds[1].amount # ListingAt(last.collection_id, last.token_id).price

\* C7: a Buy by the owner recorded in the listing fails with SelfPurchase whatever
\* funds are attached, none included, and changes nothing.
C7_SelfPurchase ==
    [][(/\ RanOnListed("Buy")
        /\ last'.sender = ListingAt(last'.collection_id, last'.token_id).owner) =>
          (last'.err = "SelfPurchase" /\ NothingChanged)]_vars

\* the seller tries to buy with no funds attached
C7_Witness ==
    /\ last.op = "Buy" /\ last.err = "SelfPurchase"
    /\ last.funds = <<>>
    /\ ListingAt(last.collection_id, last.token_id).owner = last.sender

\* C8: ListFixedToken by anyone but the token's current owner fails with
\* Unauthorized and changes neither the listings nor the locks; a ListFixedToken
\* that succeeds was sent by the owner.
C8_ListOnlyByOwner ==
    [][/\ (/\ RanOnToken("ListFixedToken")
           /\ last'.sender # OwnerAt(last'.collection_id, last'.token_id)) =>
             (last'.err = "Unauthorized" /\ NothingChanged)
       /\ (Ran("ListFixedToken") /\ last'.err = OK) =>
             /\ HasToken(last'.collection_id, last'.token_id)
             /\ last'.sender = OwnerAt(last'.collection_id, last'.token_id)]_vars

\* someone else tries to list a token that could have been listed
C8_Witness ==
    /\ last.op = "ListFixedToken" /\ last.err = "Unauthorized"
    /\ HasToken(last.collection_id, last.token_id)
    /\ tok[ChildAddrs[last.collection_id]].admin = MARKET
    /\ ~Listed(last.collection_id, last.token_id)

\* the error of the first set flag, in the order transfer, send, burn
FirstLocked(locks) ==
    IF locks.transfer_lock THEN "TransferLocked"
    ELSE IF locks.send_lock THEN "SendLocked"
    ELSE IF locks.burn_lock THEN "BurnLocked"
    ELSE OK

\* C9: ListFixedToken by the owner fails when a transfer, send or burn lock is
\* set on the collection or on the token, with the error of the first set flag
\* in the order transfer, send, burn, the collection's locks before the token's,
\* and creates no listing; on a token that is already listed it fails with
\* TransferLocked and leaves the listing as it was.
C9_ListLocked ==
    [][(/\ RanOnToken("ListFixedToken")
        /\ last'.sender = OwnerAt(last'.collection_id, last'.token_id)) =>
          LET c == last'.collection_id
              t == last'.token_id
              ofCollection == FirstLocked(tok[ChildAddrs[c]].LOCKS)
              ofToken == IF HasLockRecord(c, t) THEN FirstLocked(LockRecord(c, t)) ELSE OK
              expected == IF ofCollection # OK THEN ofCollection ELSE ofToken
          IN  /\ expected # OK => (last'.err = expected /\ NothingChanged)
              /\ Listed(c, t) => (last'.err = "TransferLocked" /\ NothingChanged)]_vars

\* the collection's burn lock is reported before the token's transfer lock
C9_Witness ==
    /\ last.op = "ListFixedToken" /\ last.err = "BurnLocked"
    /\ HasLockRecord(last.collection_id, last.token_id)
    /\ LockRecord(last.collection_id, last.token_id).transfer_lock
    /\ tok[ChildAddrs[last.collection_id]].LOCKS.burn_lock

\* C10: DelistFixedToken by anyone but the owner recorded in the listing fails with
\* Unauthorized and leaves the listing and the locks as they were; a
\* DelistFixedToken that succeeds was sent by that owner.
C10_DelistOnlyByOwner ==
    [][/\ (/\ RanOnListed("DelistFixedToken")
           /\ last'.sender # ListingAt(last'.collection_id, last'.token_id).owner) =>
             (last'.err = "Unauthorized" /\ NothingChanged)
       /\ (Ran("DelistFixedToken") /\ last'.err = OK) =>
             /\ Listed(last'.collection_id, last'.token_id)
             /\ last'.sender = ListingAt(last'.collection_id, last'.token_id).owner]_vars

\* someone else tries to delist a listed token
C10_Witness ==
    /\ last.op = "DelistFixedToken" /\ last.err = "Unauthorized"
    /\ Listed(last.collection_id, last.token_id)
    /\ LockedForSale(last.collection_id, last.token_id)

\* C11: DelistFixedToken by the owner of a token that has no listing fails with
\* NotListed and changes nothing: no lock of the token is cleared, whoever set it.
C11_DelistNotListed ==
    [][(/\ RanOnToken("DelistFixedToken")
        /\ ~Listed(last'.collection_id, last'.token_id)) =>
          /\ last'.err # OK
          /\ last'.msgs = <<>>
          /\ NothingChanged
          /\ last'.sender = OwnerAt(last'.collection_id, last'.token_id) =>
                 last'.err = "NotListed"]_vars

\* the owner tries to delist a token the admin has locked
C11_Witness ==
    /\ last.op = "DelistFixedToken" /\ last.err = "NotListed"
    /\ ~Listed(last.collection_id, last.token_id)
    /\ HasLockRecord(last.collection_id, last.token_id)
    /\ LockRecord(last.collection_id, last.token_id).transfer_lock

\* C12: UpdatePrice by the owner recorded in the listing changes the price of that
\* listing and nothing else, and emits no message; UpdatePrice by anyone else
\* fails with Unauthorized and changes nothing.
C12_UpdatePriceOnly ==
    [][RanOnListed("UpdatePrice") =>
          LET k == <<last'.collection_id, last'.token_id>> IN
          IF last'.sender = market.FIXED_LISTING[k].owner
          THEN /\ last'.err = OK
               /\ last'.msgs = <<>>
               /\ market' = [market EXCEPT !.FIXED_LISTING[k].price = last'.price]
               /\ tok' = tok /\ bank' = bank /\ mint' = mint
          ELSE last'.err = "Unauthorized" /\ NothingChanged]_vars

\* the price of a listing has been lowered
C12_Witness ==
    /\ last.op = "UpdatePrice" /\ last.err = OK /\ last.price = LowPrice
    /\ Listed(last.collection_id, last.token_id)
    /\ ListingAt(last.collection_id, last.token_id).price = LowPrice
    /\ ListingAt(last.collection_id, last.token_id).owner = last.sender
    /\ LockedForSale(last.collection_id, last.token_id)

\* C13: when the owner delists a token and then lists it again, at any price, the
\* second ListFixedToken succeeds and yields a listing with that price and the
\* same owner, and the token's lock record is again transfer, send, burn = true
\* and mint = false, as under every listing.
C13_DelistThenList ==
    [][(/\ last.op = "DelistFixedToken" /\ last.err = OK
        /\ Ran("ListFixedToken")
        /\ last'.sender = last.sender
        /\ last'.collection_id = last.collection_id
        /\ last'.token_id = last.token_id) =>
          LET c == last'.collection_id
              t == last'.token_id
          IN  /\ last'.err = OK
              /\ <<c, t>> \in DOMAIN market'.FIXED_LISTING
              /\ market'.FIXED_LISTING[<<c, t>>] =
                     [collection_id |-> c, token_id |-> t,
                      price |-> last'.price, owner |-> last.sender]
              /\ t \in DOMAIN tok'[ChildAddrs[c]].TOKEN_LOCKS
              /\ tok'[ChildAddrs[c]].TOKEN_LOCKS[t] =
                     [mint_lock |-> FALSE, burn_lock |-> TRUE,
                      transfer_lock |-> TRUE, send_lock |-> TRUE]
              /\ tok'[ChildAddrs[c]].tokens = tok[ChildAddrs[c]].tokens]_vars

\* every listing holds the token under the same lock record
C13_Witness ==
    /\ last.op = "ListFixedToken" /\ last.err = OK /\ last.price = LowPrice
    /\ ListingAt(last.collection_id, last.token_id) =
           [collection_id |-> last.collection_id, token_id |-> last.token_id,
            price |-> LowPrice, owner |-> last.sender]
    /\ LockRecord(last.collection_id, last.token_id) =
           [mint_lock |-> FALSE, burn_lock |-> TRUE, transfer_lock |-> TRUE, send_lock |-> TRUE]
    /\ bank[last.sender][NATIVE_DENOM] = InitBalance

----------------------------------------------------------------------------
(* The marketplace against a token contract whose operator list its admin   *)
(* changes (setup_token_module_operators of the integration tests).         *)

\* an operator list is kept as the set of its addresses
OperatorChoices == {{}, {MARKET}}

OperatorsNext ==
    \/ MarketNext
    \/ \E c \in CollectionIds :
          \/ MintToken(c, USER)
          \/ \E addrs \in OperatorChoices : UpdateOperators(ADMIN, c, addrs)
          \/ \E u \in Users : ApproveAll(u, c, MARKET)

SpecOperators == Init /\ [][OperatorsNext]_vars

\* the marketplace is in the operator list of the token contract of collection c
MarketIsOperator(c) ==
    LET t == tok[ChildAddrs[c]] IN
    IsSome(t.OPERATORS) /\ MARKET \in Unwrap(t.OPERATORS)

MarketIsAdmin(c) == tok[ChildAddrs[c]].admin = MARKET

\* the step is a ListFixedToken or DelistFixedToken by the token's owner that
\* passes the marketplace's own checks and so emits the UpdateTokenLock message
OwnerListsOrDelists ==
    LET c == last'.collection_id
        t == last'.token_id
    IN  /\ HasToken(c, t)
        /\ last'.sender = OwnerAt(c, t)
        /\ \/ Ran("ListFixedToken") /\ list_checks(World, ChildAddrs[c], OwnerAt(c, t), last'.sender, t) = OK
           \/ Ran("DelistFixedToken") /\ Listed(c, t)

----------------------------------------------------------------------------
(* The mint module (contracts/modules/mint/src/contract.rs): the registry   *)
(* of collections.  A collection's child contract is whatever code the      *)
(* caller names by code_id; its instantiation succeeds or fails.            *)

MaxCollections == 2

TOKEN_INSTANTIATE_REPLY_ID == 1

\* state after instantiate; the sender is the hub
mint_instantiate(admin, sender) ==
    [CONFIG |-> [admin |-> admin, public_collection_creation |-> FALSE, mint_lock |-> FALSE],
     COLLECTION_ID |-> 0,
     HUB_ADDR |-> Some(sender),
     OPERATORS |-> None,
     COLLECTION_ADDRS |-> <<>>,
     BLACKLIST_COLLECTION_ADDRS |-> <<>>,
     LINKED_COLLECTIONS |-> <<>>,
     COLLECTION_INFO |-> <<>>]

\* the privilege check every handler of the mint module starts with
mint_check_admin_privileges(m, self, sender) ==
    check_admin_privileges(sender, self, m.CONFIG.admin, m.HUB_ADDR, m.OPERATORS)

\* faulty variant of check_collection_ids_exists: every id is accepted
check_collection_ids_exists_none(m, collection_ids) == OK

check_collection_ids_exists(m, collection_ids) ==
    IF \E i \in DOMAIN collection_ids : collection_ids[i] \notin DOMAIN m.COLLECTION_ADDRS
    THEN "CollectionIdNotFound" ELSE OK

\* faulty variant of create_collection_authorized: the public switch is ignored
create_collection_authorized_private(m, self, sender) ==
    mint_check_admin_privileges(m, self, sender)

\* who may create a collection
create_collection_authorized(m, self, sender) ==
    IF ~m.CONFIG.public_collection_creation
    THEN mint_check_admin_privileges(m, self, sender)
    ELSE TRUE

\* the submessage that instantiates the child contract
TokenInstantiateSubMsg(m, self, sender, collection_info) ==
    [kind |-> "Instantiate", from |-> self,
     admin |-> m.CONFIG.admin, creator |-> sender, minter |-> self,
     native_denom |-> collection_info.native_denom,
     id |-> TOKEN_INSTANTIATE_REPLY_ID, reply_on |-> "Success"]

\* faulty variant of execute_create_collection: the new counter value is not saved
execute_create_collection_counter_unsaved(w, self, sender, collection_info, linked_collections) ==
    LET m == w.mint
        collection_id == m.COLLECTION_ID + 1
    IN  IF ~create_collection_authorized(m, self, sender) THEN Fail("Unauthorized", w)
        ELSE IF IsSome(linked_collections)
                /\ check_collection_ids_exists(m, Unwrap(linked_collections)) # OK
             THEN Fail(check_collection_ids_exists(m, Unwrap(linked_collections)), w)
        ELSE Res(OK,
                 [w EXCEPT !.mint =
                     [m EXCEPT !.LINKED_COLLECTIONS =
                                   IF IsSome(linked_collections)
                                   THEN MapSave(@, collection_id, Unwrap(linked_collections))
                                   ELSE @,
                               !.COLLECTION_INFO = MapSave(@, collection_id, collection_info)]],
                 <<TokenInstantiateSubMsg(m, self, sender, collection_info)>>)

execute_create_collection(w, self, sender, collection_info, linked_collections) ==
    LET m == w.mint
        collection_id == m.COLLECTION_ID + 1
    IN  IF ~create_collection_authorized(m, self, sender) THEN Fail("Unauthorized", w)
        ELSE IF IsSome(linked_collections)
                /\ check_collection_ids_exists(m, Unwrap(linked_collections)) # OK
             THEN Fail(check_collection_ids_exists(m, Unwrap(linked_collections)), w)
        ELSE Res(OK,
                 [w EXCEPT !.mint =
                     [m EXCEPT !.LINKED_COLLECTIONS =
                                   IF IsSome(linked_collections)
                                   THEN MapSave(@, collection_id, Unwrap(linked_collections))
                                   ELSE @,
                               !.COLLECTION_ID = collection_id,
                               !.COLLECTION_INFO = MapSave(@, collection_id, collection_info)]],
                 <<TokenInstantiateSubMsg(m, self, sender, collection_info)>>)

execute_update_public_collection_creation(w, self, sender, public_collection_creation) ==
    IF ~mint_check_admin_privileges(w.mint, self, sender) THEN Fail("Unauthorized", w)
    ELSE Res(OK, [w EXCEPT !.mint.CONFIG.public_collection_creation = public_collection_creation],
             <<>>)

\* addrs is sorted and deduplicated, then saved: the set of its addresses
execute_update_operators(w, self, sender, addrs) ==
    IF ~mint_check_admin_privileges(w.mint, self, sender) THEN Fail("Unauthorized", w)
    ELSE Res(OK, [w EXCEPT !.mint.OPERATORS = Some(addrs)], <<>>)

\* faulty variant of execute_whitelist_collection: the blacklist is looked up first
execute_whitelist_collection_lookup_first(w, self, sender, collection_id) ==
    LET m == w.mint IN
    IF ~mint_check_admin_privileges(m, self, sender) THEN Fail("Unauthorized", w)
    ELSE IF collection_id \notin DOMAIN m.BLACKLIST_COLLECTION_ADDRS
         THEN Fail("CollectionIdNotFound", w)
    ELSE IF collection_id \in DOMAIN m.COLLECTION_ADDRS THEN Fail("AlreadyWhitelistlisted", w)
    ELSE Res(OK,
             [w EXCEPT !.mint =
                 [m EXCEPT !.BLACKLIST_COLLECTION_ADDRS = MapRemove(@, collection_id),
                           !.COLLECTION_ADDRS =
                               MapSave(@, collection_id,
                                       m.BLACKLIST_COLLECTION_ADDRS[collection_id])]],
             <<>>)

execute_whitelist_collection(w, self, sender, collection_id) ==
    LET m == w.mint IN
    IF ~mint_check_admin_privileges(m, self, sender) THEN Fail("Unauthorized", w)
    ELSE IF collection_id \in DOMAIN m.COLLECTION_ADDRS THEN Fail("AlreadyWhitelistlisted", w)
    ELSE IF collection_id \notin DOMAIN m.BLACKLIST_COLLECTION_ADDRS
         THEN Fail("CollectionIdNotFound", w)
    ELSE Res(OK,
             [w EXCEPT !.mint =
                 [m EXCEPT !.BLACKLIST_COLLECTION_ADDRS = MapRemove(@, collection_id),
                           !.COLLECTION_ADDRS =
                               MapSave(@, collection_id,
                                       m.BLACKLIST_COLLECTION_ADDRS[collection_id])]],
             <<>>)

\* faulty variant of execute_blacklist_collection: the active entry is not removed
execute_blacklist_collection_keeps_active(w, self, sender, collection_id) ==
    LET m == w.mint IN
    IF ~mint_check_admin_privileges(m, self, sender) THEN Fail("Unauthorized", w)
    ELSE IF collection_id \in DOMAIN m.BLACKLIST_COLLECTION_ADDRS
         THEN Fail("AlreadyBlacklisted", w)
    ELSE IF collection_id \notin DOMAIN m.COLLECTION_ADDRS THEN Fail("CollectionIdNotFound", w)
    ELSE Res(OK,
             [w EXCEPT !.mint.BLACKLIST_COLLECTION_ADDRS =
                           MapSave(@, collection_id, m.COLLECTION_ADDRS[collection_id])],
             <<>>)

execute_blacklist_collection(w, self, sender, collection_id) ==
    LET m == w.mint IN
    IF ~mint_check_admin_privileges(m, self, sender) THEN Fail("Unauthorized", w)
    ELSE IF collection_id \in DOMAIN m.BLACKLIST_COLLECTION_ADDRS
         THEN Fail("AlreadyBlacklisted", w)
    ELSE IF collection_id \notin DOMAIN m.COLLECTION_ADDRS THEN Fail("CollectionIdNotFound", w)
    ELSE Res(OK,
             [w EXCEPT !.mint =
                 [m EXCEPT !.COLLECTION_ADDRS = MapRemove(@, collection_id),
                           !.BLACKLIST_COLLECTION_ADDRS =
                               MapSave(@, collection_id, m.COLLECTION_ADDRS[collection_id])]],
             <<>>)

\* faulty variant of reply: the address is bound to the id after the counter
reply_next_id(w, id, result) ==
    IF id # TOKEN_INSTANTIATE_REPLY_ID THEN Fail("InvalidReplyID", w)
    ELSE IF ~IsSome(result) THEN Fail("TokenInstantiateError", w)
    ELSE Res(OK,
             [w EXCEPT !.mint.COLLECTION_ADDRS =
                           MapSave(@, w.mint.COLLECTION_ID + 1, Unwrap(result))],
             <<>>)

\* the continuation run after the child contract was instantiated; result is
\* the address parsed from the reply data, or None
reply(w, id, result) ==
    IF id # TOKEN_INSTANTIATE_REPLY_ID THEN Fail("InvalidReplyID", w)
    ELSE IF ~IsSome(result) THEN Fail("TokenInstantiateError", w)
    ELSE Res(OK,
             [w EXCEPT !.mint.COLLECTION_ADDRS =
                           MapSave(@, w.mint.COLLECTION_ID, Unwrap(result))],
             <<>>)

----------------------------------------------------------------------------
(* The host running one CreateCollection transaction: the handler, the      *)
(* instantiation of the child contract, the reply.                          *)

\* the address the host gives the next contract it instantiates
NextChildAddr(w) == ChildAddrs[Cardinality(DOMAIN w.tok) + 1]

\* the host instantiates the child; child_ok tells whether the child's own
\* instantiate accepts the message
HostInstantiate(w, sub, child_ok) ==
    IF ~child_ok THEN [err |-> "Token.InstantiateError", w |-> w, addr |-> None]
    ELSE [err |-> OK,
          w |-> [w EXCEPT !.tok = MapSave(@, NextChildAddr(w),
                     token_instantiate(sub.admin, sub.creator, sub.minter,
                                       sub.native_denom, None, sub.from))],
          addr |-> Some(NextChildAddr(w))]

\* faulty variant of CommitCreate: a failed instantiation keeps the handler's writes
CommitCreateNoRollback(w0, r, child_ok) ==
    IF r.err # OK THEN Res(r.err, w0, <<>>)
    ELSE LET h == HostInstantiate(r.w, r.msgs[1], child_ok) IN
         IF h.err # OK THEN Res(h.err, r.w, <<>>)
         ELSE LET c == reply(h.w, r.msgs[1].id, h.addr) IN
              IF c.err # OK THEN Res(c.err, w0, <<>>)
              ELSE Res(OK, c.w, r.msgs)

\* all or nothing; the reply is requested on success only, so a failed
\* instantiation fails the transaction without running the reply
CommitCreate(w0, r, child_ok) ==
    IF r.err # OK THEN Res(r.err, w0, <<>>)
    ELSE LET h == HostInstantiate(r.w, r.msgs[1], child_ok) IN
         IF h.err # OK THEN Res(h.err, w0, <<>>)
         ELSE LET c == reply(h.w, r.msgs[1].id, h.addr) IN
              IF c.err # OK THEN Res(c.err, w0, <<>>)
              ELSE Res(OK, c.w, r.msgs)

\* the outcome of the last invocation of the mint module
MintLast(op, sender, collection_id, collection_info, linked_collections, out) ==
    [op |-> op, sender |-> sender, collection_id |-> collection_id,
     collection_info |-> collection_info, linked_collections |-> linked_collections,
     err |-> out.err, msgs |-> out.msgs]

NoCollectionInfo == [name |-> "", native_denom |-> ""]

NormalCollectionInfo == [name |-> "Normal", native_denom |-> NATIVE_DENOM]

CollectionInfos == {NormalCollectionInfo, [name |-> "Linked", native_denom |-> TEST_DENOM]}

\* ids up to one past the largest id the registry can hold
RegistryIds == 1..(MaxCollections + 1)

\* no list, the first collection, the id the new collection is about to receive
LinkedChoices == {None, Some(<<1>>), Some(<<mint.COLLECTION_ID + 1>>)}

\* the admin, the hub, and a user who is privileged only as an operator
MintCallers == {ADMIN, USER, HUB}

MintOperatorChoices == {{}, {USER}}

CreateCollection(sender, collection_info, linked_collections, child_ok) ==
    LET r == execute_create_collection(World, MINT_MODULE, sender, collection_info,
                                       linked_collections)
        out == CommitCreate(World, r, child_ok)
    IN  /\ mint.COLLECTION_ID < MaxCollections
        /\ r.err # OK => child_ok
        /\ Apply(out, MintLast("CreateCollection", sender, mint.COLLECTION_ID + 1,
                               collection_info, linked_collections, out))

WhitelistCollection(sender, collection_id) ==
    LET out == Commit(World, execute_whitelist_collection(World, MINT_MODULE, sender, collection_id),
                      AnyEnv)
    IN  Apply(out, MintLast("WhitelistCollection", sender, collection_id, NoCollectionInfo, None, out))

BlacklistCollection(sender, collection_id) ==
    LET out == Commit(World, execute_blacklist_collection(World, MINT_MODULE, sender, collection_id),
                      AnyEnv)
    IN  Apply(out, MintLast("BlacklistCollection", sender, collection_id, NoCollectionInfo, None, out))

UpdatePublicCollectionCreation(sender, public_collection_creation) ==
    LET out == Commit(World,
                      execute_update_public_collection_creation(World, MINT_MODULE, sender,
                                                                public_collection_creation),
                      AnyEnv)
    IN  Apply(out, MintLast("UpdatePublicCollectionCreation", sender, 0, NoCollectionInfo, None, out))

MintUpdateOperators(sender, addrs) ==
    LET out == Commit(World, execute_update_operators(World, MINT_MODULE, sender, addrs), AnyEnv)
    IN  Apply(out, MintLast("UpdateOperators", sender, 0, NoCollectionInfo, None, out))

\* the hub has instantiated the mint module; no collection exists yet
InitMintModule ==
    /\ market = InitMarket(50)
    /\ tok = <<>>
    /\ mint = mint_instantiate(ADMIN, HUB)
    /\ bank = InitBank
    /\ ext = NoExt
    /\ last = MintLast("Init", "", 0, NoCollectionInfo, None, Res(OK, World, <<>>))

MintModuleNext ==
    \E sender \in MintCallers :
        \/ \E linked_collections \in LinkedChoices, child_ok \in BOOLEAN :
              CreateCollection(sender, NormalCollectionInfo, linked_collections, child_ok)
        \/ \E collection_id \in RegistryIds : WhitelistCollection(sender, collection_id)
        \/ \E collection_id \in RegistryIds : BlacklistCollection(sender, collection_id)
        \/ \E b \in BOOLEAN : UpdatePublicCollectionCreation(sender, b)
        \/ \E addrs \in MintOperatorChoices : MintUpdateOperators(sender, addrs)

SpecMint == InitMintModule /\ [][MintModuleNext]_vars

\* collections created with differing infos while the admin moves earlier ones
\* between the registries
CreateNext ==
    \/ \E sender \in MintCallers, collection_info \in CollectionInfos,
          linked_collections \in LinkedChoices, child_ok \in BOOLEAN :
          CreateCollection(sender, collection_info, linked_collections, child_ok)
    \/ \E collection_id \in RegistryIds : WhitelistCollection(ADMIN, collection_id)
    \/ \E collection_id \in RegistryIds : BlacklistCollection(ADMIN, collection_id)

SpecCreate == InitMintModule /\ [][CreateNext]_vars

----------------------------------------------------------------------------
(* The registries of the mint module.                                        *)

ActiveIds == DOMAIN mint.COLLECTION_ADDRS
BlacklistedIds == DOMAIN mint.BLACKLIST_COLLECTION_ADDRS

\* C15: after any sequence of CreateCollection (with its reply),
\* WhitelistCollection and BlacklistCollection, no collection id is in both the
\* active registry and the blacklist.
C15_RegistriesDisjoint == ActiveIds \cap BlacklistedIds = {}

C15_Witness ==
    /\ last.op = "WhitelistCollection" /\ last.err = OK
    /\ last.collection_id \in ActiveIds
    /\ BlacklistedIds # {}
    /\ mint.COLLECTION_ID = MaxCollections

\* C16: between transactions every id from 1 to COLLECTION_ID is in exactly one
\* of the active registry and the blacklist, and neither holds an id above
\* COLLECTION_ID.
C16_EveryIdRegisteredOnce ==
    /\ \A id \in 1..mint.COLLECTION_ID : (id \in ActiveIds) # (id \in BlacklistedIds)
    /\ ActiveIds \cup BlacklistedIds \subseteq 1..mint.COLLECTION_ID

C16_Witness ==
    /\ last.op = "CreateCollection" /\ last.err = "Token.InstantiateError"
    /\ mint.COLLECTION_ID = 1
    /\ BlacklistedIds = {1}
    /\ ActiveIds = {}

\* the step left both registries as they were
RegistriesUnchanged ==
    /\ mint'.COLLECTION_ADDRS = mint.COLLECTION_ADDRS
    /\ mint'.BLACKLIST_COLLECTION_ADDRS = mint.BLACKLIST_COLLECTION_ADDRS

\* C17: BlacklistCollection(id) by the admin fails with AlreadyBlacklisted when
\* id is blacklisted and with CollectionIdNotFound when id is in neither
\* registry; WhitelistCollection(id) fails with AlreadyWhitelistlisted when id is
\* active and with CollectionIdNotFound when it is in neither.  A success moves
\* the id to the other registry with the same address and changes nothing else;
\* a failure, by any caller, leaves both registries unchanged.
C17_WhitelistBlacklist ==
    [][LET id == last'.collection_id
           byAdmin == last'.sender = mint.CONFIG.admin
       IN  /\ (Ran("BlacklistCollection") /\ byAdmin) =>
                 IF id \in BlacklistedIds THEN last'.err = "AlreadyBlacklisted"
                 ELSE IF id \notin ActiveIds THEN last'.err = "CollectionIdNotFound"
                 ELSE /\ last'.err = OK
                      /\ mint' = [mint EXCEPT
                            !.COLLECTION_ADDRS = MapRemove(@, id),
                            !.BLACKLIST_COLLECTION_ADDRS =
                                MapSave(@, id, mint.COLLECTION_ADDRS[id])]
                      /\ tok' = tok
           /\ (Ran("WhitelistCollection") /\ byAdmin) =>
                 IF id \in ActiveIds THEN last'.err = "AlreadyWhitelistlisted"
                 ELSE IF id \notin BlacklistedIds THEN last'.err = "CollectionIdNotFound"
                 ELSE /\ last'.err = OK
                      /\ mint' = [mint EXCEPT
                            !.BLACKLIST_COLLECTION_ADDRS = MapRemove(@, id),
                            !.COLLECTION_ADDRS =
                                MapSave(@, id, mint.BLACKLIST_COLLECTION_ADDRS[id])]
                      /\ tok' = tok
           /\ ((Ran("BlacklistCollection") \/ Ran("WhitelistCollection")) /\ last'.err # OK) =>
                 NothingChanged]_vars

C17_Witness ==
    /\ last.op = "BlacklistCollection" /\ last.err = OK
    /\ last.sender = mint.CONFIG.admin
    /\ last.collection_id = 2
    /\ BlacklistedIds = {2}
    /\ mint.BLACKLIST_COLLECTION_ADDRS[2] = ChildAddrs[2]
    /\ ActiveIds = {1}

\* the step is a CreateCollection by a caller allowed to create, whose
\* linked-collection list contains the id the new collection is about to receive
CreatesSelfLinked ==
    /\ Ran("CreateCollection")
    /\ create_collection_authorized(mint, MINT_MODULE, last'.sender)
    /\ IsSome(last'.linked_collections)
    /\ \E i \in DOMAIN Unwrap(last'.linked_collections) :
          Unwrap(last'.linked_collections)[i] = mint.COLLECTION_ID + 1

C19_CreateAuthorization ==
    [][Ran("CreateCollection") =>
          LET sender == last'.sender
              allowed == \/ sender = mint.CONFIG.admin
                         \/ (mint.OPERATORS # None /\ sender \in mint.OPERATORS[1])
                         \/ mint.HUB_ADDR = <<sender>>
                         \/ sender = MINT_MODULE
                         \/ mint.CONFIG.public_collection_creation
          IN  /\ (last'.err = "Unauthorized") <=> ~allowed
              /\ ~allowed => last'.msgs = <<>> /\ NothingChanged]_vars

C19_Witness ==
    /\ last.op = "CreateCollection" /\ last.err = OK
    /\ last.sender = USER
    /\ ~mint.CONFIG.public_collection_creation
    /\ mint.OPERATORS = Some({USER})
    /\ mint.COLLECTION_ADDRS[mint.COLLECTION_ID] \in DOMAIN tok
    /\ tok[mint.COLLECTION_ADDRS[mint.COLLECTION_ID]].creator = USER

\* the registry entry of collection id after the step, active or blacklisted
AddressAfter(id) ==
    IF id \in DOMAIN mint'.COLLECTION_ADDRS THEN mint'.COLLECTION_ADDRS[id]
    ELSE mint'.BLACKLIST_COLLECTION_ADDRS[id]

\* C20: every successful CreateCollection allocates the previous counter plus
\* one, so the ids are 1, 2, 3, ... without gap or reuse; the handler stores the
\* id and the collection info before the child's address is known, and the
\* reply binds that same id to the child instantiated by that request, so id k
\* is bound to the k-th child created.  A failed CreateCollection and every
\* other operation leave the counter alone.
C20_SequentialIds ==
    [][LET id == mint.COLLECTION_ID + 1
           handled == execute_create_collection(World, MINT_MODULE, last'.sender,
                                                last'.collection_info,
                                                last'.linked_collections).w
       IN  IF Ran("CreateCollection") /\ last'.err = OK
           THEN /\ last'.collection_id = id
                /\ mint'.COLLECTION_ID = id
                /\ handled.mint.COLLECTION_ID = id
                /\ handled.mint.COLLECTION_INFO[id] = last'.collection_info
                /\ id \notin DOMAIN handled.mint.COLLECTION_ADDRS
                /\ handled.tok = tok
                /\ mint'.COLLECTION_INFO = MapSave(mint.COLLECTION_INFO, id, last'.collection_info)
                /\ \E addr \in DOMAIN tok' \ DOMAIN tok :
                      /\ DOMAIN tok' = DOMAIN tok \cup {addr}
                      /\ mint'.COLLECTION_ADDRS = MapSave(mint.COLLECTION_ADDRS, id, addr)
                      /\ tok'[addr].creator = last'.sender
                      /\ tok'[addr].minter = MINT_MODULE
                      /\ tok'[addr].native_denom = last'.collection_info.native_denom
                /\ mint'.BLACKLIST_COLLECTION_ADDRS = mint.BLACKLIST_COLLECTION_ADDRS
                /\ \A k \in 1..id : AddressAfter(k) = ChildAddrs[k]
           ELSE /\ mint'.COLLECTION_ID = mint.COLLECTION_ID
                /\ mint'.COLLECTION_INFO = mint.COLLECTION_INFO
                /\ tok' = tok]_vars

C20_Witness ==
    /\ last.op = "CreateCollection" /\ last.err = OK
    /\ last.collection_id = 2 /\ mint.COLLECTION_ID = 2
    /\ last.collection_info.native_denom = TEST_DENOM
    /\ mint.COLLECTION_ADDRS = (2 :> ChildAddrs[2])
    /\ mint.BLACKLIST_COLLECTION_ADDRS = (1 :> ChildAddrs[1])
    /\ mint.COLLECTION_INFO[1] = NormalCollectionInfo
    /\ mint.COLLECTION_INFO[2] = last.collection_info
    /\ tok[ChildAddrs[2]].native_denom = TEST_DENOM
    /\ tok[ChildAddrs[1]].native_denom = NATIVE_DENOM

\* the child's instantiation failed in the step
ChildFailed == Ran("CreateCollection") /\ last'.err = "Token.InstantiateError"

\* C21: when the child contract fails to instantiate, the whole CreateCollection
\* is rolled back: the counter, COLLECTION_INFO, LINKED_COLLECTIONS and both
\* registries are as before the call although the handler had written the new
\* id, and the next successful CreateCollection receives that id.
C21_CreateRolledBack ==
    [][LET handled == execute_create_collection(World, MINT_MODULE, last'.sender,
                                                last'.collection_info,
                                                last'.linked_collections).w.mint
       IN  /\ ChildFailed =>
                 /\ handled.COLLECTION_ID = mint.COLLECTION_ID + 1
                 /\ last'.collection_id \in DOMAIN handled.COLLECTION_INFO
                 /\ mint' = mint
                 /\ tok' = tok
                 /\ last'.msgs = <<>>
                 /\ last'.collection_id = mint'.COLLECTION_ID + 1
           /\ (/\ last.op = "CreateCollection" /\ last.err = "Token.InstantiateError"
               /\ Ran("CreateCollection") /\ last'.err = OK) =>
                 /\ last'.collection_id = last.collection_id
                 /\ mint'.COLLECTION_ID = last.collection_id]_vars

C21_Witness ==
    /\ last.op = "CreateCollection" /\ last.err = "Token.InstantiateError"
    /\ last.linked_collections = Some(<<1>>)
    /\ last.collection_id = 2
    /\ mint.COLLECTION_ID = 1
    /\ DOMAIN mint.COLLECTION_INFO = {1}
    /\ DOMAIN mint.LINKED_COLLECTIONS = {}
    /\ DOMAIN mint.COLLECTION_ADDRS \cup DOMAIN mint.BLACKLIST_COLLECTION_ADDRS = {1}
    /\ DOMAIN tok = {ChildAddrs[1]}

----------------------------------------------------------------------------
(* Minting through the mint module (contracts/modules/mint/src/contract.rs) *)
(* The hub's module registry, the fee contract's fixed fees and the         *)
(* whitelist contracts are read through queries; their storage is ext.      *)

\* the address the hub has registered for a module, if any
query_module_address(w, module) ==
    IF module \in DOMAIN w.ext.modules THEN Some(w.ext.modules[module]) ELSE None

\* the fixed fee the fee contract stores under (module, fee_name/collection_id)
query_fixed_fee(w, module, fee_name, collection_id) ==
    IF <<module, fee_name, collection_id>> \in DOMAIN w.ext.FIXED_FEES
    THEN Some(w.ext.FIXED_FEES[<<module, fee_name, collection_id>>]) ELSE None

execute_update_mint_lock(w, self, sender, lock) ==
    IF ~mint_check_admin_privileges(w.mint, self, sender) THEN Fail("Unauthorized", w)
    ELSE Res(OK, [w EXCEPT !.mint.CONFIG.mint_lock = lock], <<>>)

\* the message that asks the collection's token contract to mint
_execute_mint(w, self, msgs, collection_id, recipient) ==
    IF collection_id \notin DOMAIN w.mint.COLLECTION_ADDRS THEN Fail("Std.NotFound", w)
    ELSE Res(OK, w, Append(msgs,
                 [kind |-> "Mint", from |-> self,
                  to |-> w.mint.COLLECTION_ADDRS[collection_id], owner |-> recipient]))

\* faulty variant of execute_mint_price: a member pays the standard price
execute_mint_price_standard(w, sender, collection_id) ==
    LET price == query_fixed_fee(w, "mint", "price", collection_id)
    IN  [err |-> OK, is_whitelist |-> FALSE, charged |-> IsSome(price),
         price |-> IF IsSome(price) THEN Unwrap(price) ELSE 0]

\* the price of a Mint when a fee module is registered: whether the whitelist
\* branch was taken, whether a transfer to the admin is pushed, and its amount
execute_mint_price(w, sender, collection_id) ==
    LET whitelist_addr == w.tok[w.mint.COLLECTION_ADDRS[collection_id]].CONTRACTS.whitelist
        is_active == IsSome(whitelist_addr) /\ w.ext.whitelists[Unwrap(whitelist_addr)].is_active
        fee == query_fixed_fee(w, "mint", "whitelist", collection_id)
        whitelist_price == IF IsSome(fee) THEN Unwrap(fee) ELSE 0
        price == query_fixed_fee(w, "mint", "price", collection_id)
    IN  IF is_active
        THEN IF sender \notin w.ext.whitelists[Unwrap(whitelist_addr)].members
             THEN [err |-> "AddressNotWhitelisted", is_whitelist |-> FALSE,
                   charged |-> FALSE, price |-> 0]
             ELSE [err |-> OK, is_whitelist |-> TRUE,
                   charged |-> whitelist_price # 0, price |-> whitelist_price]
        ELSE [err |-> OK, is_whitelist |-> FALSE, charged |-> IsSome(price),
              price |-> IF IsSome(price) THEN Unwrap(price) ELSE 0]

\* faulty variant of execute_mint: the mint lock is not looked at
execute_mint_unlocked(w, self, sender, funds, collection_id) ==
    _execute_mint(w, self, <<>>, collection_id, sender)

execute_mint(w, self, sender, funds, collection_id) ==
    IF w.mint.CONFIG.mint_lock THEN Fail("LockedMint", w)
    ELSE IF ~IsSome(query_module_address(w, "fee"))
         THEN _execute_mint(w, self, <<>>, collection_id, sender)
    ELSE IF collection_id \notin DOMAIN w.mint.COLLECTION_INFO
            \/ collection_id \notin DOMAIN w.mint.COLLECTION_ADDRS
         THEN Fail("Std.NotFound", w)
    ELSE LET native_denom == w.mint.COLLECTION_INFO[collection_id].native_denom
             p == execute_mint_price(w, sender, collection_id)
             msgs == IF p.charged
                     THEN <<BankSend(self, w.mint.CONFIG.admin, native_denom, p.price)>>
                     ELSE <<>>
         IN  IF p.err # OK THEN Fail(p.err, w)
             ELSE IF p.price # 0 /\ check_funds(funds, native_denom, p.price) # OK
                  THEN Fail(check_funds(funds, native_denom, p.price), w)
             ELSE _execute_mint(w, self, msgs, collection_id, sender)

execute_admin_mint(w, self, sender, collection_id, recipient) ==
    IF ~mint_check_admin_privileges(w.mint, self, sender) THEN Fail("Unauthorized", w)
    ELSE _execute_mint(w, self, <<>>, collection_id, recipient)

\* faulty variant of execute_permission_mint: the Check message is left out
execute_permission_mint_unchecked(w, self, sender, funds, permission_msg, collection_id, recipient) ==
    IF ~mint_check_admin_privileges(w.mint, self, sender) THEN Fail("Unauthorized", w)
    ELSE Res(OK, w,
             <<[kind |-> "AdminMint", from |-> self, to |-> self, funds |-> funds,
                collection_id |-> collection_id, recipient |-> recipient]>>)

execute_permission_mint(w, self, sender, funds, permission_msg, collection_id, recipient) ==
    IF ~mint_check_admin_privileges(w.mint, self, sender) THEN Fail("Unauthorized", w)
    ELSE IF ~IsSome(query_module_address(w, "permission")) THEN Fail("Std.QueryError", w)
    ELSE Res(OK, w,
             <<[kind |-> "Check", from |-> self,
                to |-> Unwrap(query_module_address(w, "permission")), funds |-> funds,
                module |-> "mint", msg |-> permission_msg],
               [kind |-> "AdminMint", from |-> self, to |-> self, funds |-> funds,
                collection_id |-> collection_id, recipient |-> recipient]>>)

----------------------------------------------------------------------------
(* The link permission (contracts/permissions/link/src/contract.rs).  data  *)
(* is the decoded list of LinkMsg [collection_id, collection_ids].          *)

\* faulty variant of execute_check: an empty list of ids passes
execute_check_empty_passes(w, data) ==
    LET linked(msg) == IF msg.collection_id \in DOMAIN w.mint.LINKED_COLLECTIONS
                       THEN w.mint.LINKED_COLLECTIONS[msg.collection_id] ELSE <<>>
        bad == {i \in DOMAIN data :
                   \E j \in DOMAIN linked(data[i]) :
                       \A k \in DOMAIN data[i].collection_ids :
                           data[i].collection_ids[k] # linked(data[i])[j]}
    IN  IF ~IsSome(query_module_address(w, "mint")) THEN Fail("Std.QueryError", w)
        ELSE IF bad = {} THEN Res(OK, w, <<>>)
        ELSE Fail("LinkedCollectionNotFound", w)

execute_check(w, data) ==
    LET linked(msg) == IF msg.collection_id \in DOMAIN w.mint.LINKED_COLLECTIONS
                       THEN w.mint.LINKED_COLLECTIONS[msg.collection_id] ELSE <<>>
        check(msg) ==
            IF Len(msg.collection_ids) = 0 THEN "EmptyCollections"
            ELSE IF \E j \in DOMAIN linked(msg) :
                        \A k \in DOMAIN msg.collection_ids :
                            msg.collection_ids[k] # linked(msg)[j]
                 THEN "LinkedCollectionNotFound"
            ELSE OK
        bad == {i \in DOMAIN data : check(data[i]) # OK}
    IN  IF ~IsSome(query_module_address(w, "mint")) THEN Fail("Std.QueryError", w)
        ELSE IF bad = {} THEN Res(OK, w, <<>>)
        ELSE Fail(check(data[CHOOSE i \in bad : \A j \in bad : i <= j]), w)

----------------------------------------------------------------------------
(* The host on the mint path: the messages a mint handler returns are       *)
(* dispatched in order; an AdminMint the mint module sends to itself runs    *)
(* the handler and dispatches what it returns before the next message.      *)

PERMISSION_MODULE == "permission_module"

RECURSIVE DispatchMint(_, _)
DispatchMint(w, msgs) ==
    IF Len(msgs) = 0 THEN [err |-> OK, w |-> w]
    ELSE LET m == Head(msgs)
             paid == AttachFunds(w, m.from, m.to, m.funds)
             d == CASE m.kind = "BankSend" -> DispatchBank(w, m, AnyEnv)
                    [] m.kind = "Mint" ->
                          WithTok(w, m.to, token_execute_mint(w.tok[m.to], m.to, m.from, m.owner))
                    [] m.kind = "Check" ->
                          IF ~CanPay(w, m.from, m.funds)
                          THEN [err |-> "Bank.Insufficient", w |-> w]
                          ELSE LET c == execute_check(paid, m.msg)
                               IN  [err |-> c.err, w |-> c.w]
                    [] m.kind = "AdminMint" ->
                          IF ~CanPay(w, m.from, m.funds)
                          THEN [err |-> "Bank.Insufficient", w |-> w]
                          ELSE LET r == execute_admin_mint(paid, m.to, m.from,
                                                           m.collection_id, m.recipient)
                               IN  IF r.err # OK THEN [err |-> r.err, w |-> w]
                                   ELSE DispatchMint(r.w, r.msgs)
         IN  IF d.err # OK THEN d ELSE DispatchMint(d.w, Tail(msgs))

\* outcome of an invocation of the mint module whose handler returned r
CommitMint(w0, r) ==
    IF r.err # OK THEN Res(r.err, w0, <<>>)
    ELSE LET d == DispatchMint(r.w, r.msgs) IN
         IF d.err # OK THEN Res(d.err, w0, <<>>)
         ELSE Res(OK, d.w, r.msgs)

\* the outcome of the last invocation on the mint path; handled tells
\* whether the handler itself returned Ok, before its messages ran
MintingLast(op, sender, funds, collection_id, recipient, permission_msg, r, out) ==
    [op |-> op, sender |-> sender, funds |-> funds, collection_id |-> collection_id,
     recipient |-> recipient, permission_msg |-> permission_msg,
     handled |-> r.err = OK, sent |-> r.msgs, err |-> out.err, msgs |-> out.msgs]

----------------------------------------------------------------------------
(* Minting: one collection, whose token contract caps the supply; the fee   *)
(* contract stores positive fixed fees only.                                *)

MaxMints == 1

\* the standard price and the whitelist price of collection 1, each set or not
FixedFeeChoices ==
    {[k \in keys |-> IF k[2] = "price" THEN MaxPrice ELSE LowPrice] :
        keys \in SUBSET {<<"mint", "price", 1>>, <<"mint", "whitelist", 1>>}}

\* the fee and permission modules registered with the hub or not; the
\* collection without a whitelist contract, or with one that is active or
\* not and has USER as its only member
ExtChoices ==
    {[modules |-> [n \in names |-> CASE n = "mint" -> MINT_MODULE
                                     [] n = "fee" -> KOMPLE_FEE_CONTRACT_ADDR
                                     [] n = "permission" -> PERMISSION_MODULE],
      FIXED_FEES |-> fees,
      whitelists |-> [a \in {"whitelist1"} |-> [is_active |-> active, members |-> {USER}]]] :
        names \in {{"mint", "fee", "permission"}, {"mint", "permission"}, {"mint"}},
        fees \in FixedFeeChoices, active \in BOOLEAN}

\* a list of ids that is empty and one that is not
PermissionMsgs == {<<[collection_id |-> 1, collection_ids |-> ids]>> : ids \in {<<>>, <<1>>}}

InitMinting ==
    /\ market = InitMarket(50)
    /\ \E whitelist \in {None, Some("whitelist1")} :
         tok = [addr \in {ChildAddrs[1]} |->
                  [token_instantiate(ADMIN, ADMIN, MINT_MODULE, NATIVE_DENOM, None, MINT_MODULE)
                     EXCEPT !.max_token_limit = Some(MaxMints),
                            !.CONTRACTS.whitelist = whitelist]]
    /\ mint = [mint_instantiate(ADMIN, HUB) EXCEPT
                  !.COLLECTION_ID = 1,
                  !.OPERATORS = Some({RANDOM}),
                  !.COLLECTION_ADDRS = <<ChildAddrs[1]>>,
                  !.COLLECTION_INFO = <<NormalCollectionInfo>>]
    /\ bank = [a \in Addrs \cup {ChildAddrs[1], PERMISSION_MODULE} |->
                 [d \in Denoms |-> IF a \in Users THEN InitBalance ELSE 0]]
    /\ ext \in ExtChoices
    /\ "fee" \in DOMAIN ext.modules \/ ext.FIXED_FEES = <<>>
    /\ IsSome(tok[ChildAddrs[1]].CONTRACTS.whitelist) \/ ~ext.whitelists["whitelist1"].is_active
    /\ last = MintingLast("Init", "", <<>>, 0, "", <<>>, Res(OK, World, <<>>), Res(OK, World, <<>>))

Mint(sender, funds, collection_id) ==
    LET r == execute_mint(AttachFunds(World, sender, MINT_MODULE, funds), MINT_MODULE,
                          sender, funds, collection_id)
        out == CommitMint(World, r)
    IN  /\ CanPay(World, sender, funds)
        /\ Apply(out, MintingLast("Mint", sender, funds, collection_id, sender, <<>>, r, out))

AdminMint(sender, collection_id, recipient) ==
    LET r == execute_admin_mint(World, MINT_MODULE, sender, collection_id, recipient)
        out == CommitMint(World, r)
    IN  Apply(out, MintingLast("AdminMint", sender, <<>>, collection_id, recipient, <<>>, r, out))

PermissionMint(sender, funds, permission_msg, collection_id, recipient) ==
    LET r == execute_permission_mint(AttachFunds(World, sender, MINT_MODULE, funds),
                                     MINT_MODULE, sender, funds, permission_msg,
                                     collection_id, recipient)
        out == CommitMint(World, r)
    IN  /\ CanPay(World, sender, funds)
        /\ Apply(out, MintingLast("PermissionMint", sender, funds, collection_id, recipient,
                                  permission_msg, r, out))

UpdateMintLock(sender, lock) ==
    LET r == execute_update_mint_lock(World, MINT_MODULE, sender, lock)
        out == CommitMint(World, r)
    IN  Apply(out, MintingLast("UpdateMintLock", sender, <<>>, 0, "", <<>>, r, out))

MintingNext ==
    \/ \E sender \in Users, funds \in FundsChoices, collection_id \in 1..2 :
          Mint(sender, funds, collection_id)
    \/ \E sender \in Callers, collection_id \in 1..2 : AdminMint(sender, collection_id, USER)
    \/ \E sender \in Callers, funds \in {<<>>, <<Coin(NATIVE_DENOM, LowPrice)>>},
          permission_msg \in PermissionMsgs :
          PermissionMint(sender, funds, permission_msg, 1, USER)
    \/ \E sender \in {ADMIN, USER}, lock \in BOOLEAN : UpdateMintLock(sender, lock)

SpecMinting == InitMinting /\ [][MintingNext]_vars

----------------------------------------------------------------------------
\* C22: while the mint module's mint_lock is set, every Mint, for every
\* collection id and every caller, with or without funds, fails with
\* LockedMint; the handler returns no message (no bank transfer, no mint call
\* to the token contract) and storage and balances stay as they were.
C22_LockedMint ==
    [][(Ran("Mint") /\ mint.CONFIG.mint_lock) =>
          /\ last'.err = "LockedMint"
          /\ ~last'.handled /\ last'.sent = <<>> /\ last'.msgs = <<>>
          /\ NothingChanged]_vars

\* a paying Mint of an existing, priced collection was refused because of the lock
C22_Witness ==
    /\ last.op = "Mint" /\ last.err = "LockedMint" /\ mint.CONFIG.mint_lock
    /\ last.collection_id = 1 /\ last.funds = <<Coin(NATIVE_DENOM, MaxPrice)>>
    /\ query_module_address(World, "fee") # None
    /\ query_fixed_fee(World, "mint", "price", 1) = Some(MaxPrice)
    /\ tok[ChildAddrs[1]].tokens = <<>>
    /\ bank[last.sender][NATIVE_DENOM] = InitBalance

----------------------------------------------------------------------------
\* the whitelist contract of collection c is set and active
WhitelistActive(c) ==
    LET a == tok[mint.COLLECTION_ADDRS[c]].CONTRACTS.whitelist
    IN  IsSome(a) /\ ext.whitelists[Unwrap(a)].is_active

WhitelistMember(c, sender) ==
    sender \in ext.whitelists[Unwrap(tok[mint.COLLECTION_ADDRS[c]].CONTRACTS.whitelist)].members

\* the fixed fee of the mint module stored under fee_name/c, zero when none is
FeeOf(fee_name, c) ==
    IF <<"mint", fee_name, c>> \in DOMAIN ext.FIXED_FEES
    THEN ext.FIXED_FEES[<<"mint", fee_name, c>>] ELSE 0

\* a member of an active whitelist pays the whitelist price, anyone else the
\* standard price
ResolvedPrice(c, sender) ==
    IF WhitelistActive(c) /\ WhitelistMember(c, sender)
    THEN FeeOf("whitelist", c) ELSE FeeOf("price", c)

\* Mint of an existing collection, the lock off and a fee module registered
FeeMint ==
    /\ Ran("Mint") /\ ~mint.CONFIG.mint_lock
    /\ "fee" \in DOMAIN ext.modules
    /\ last'.collection_id \in DOMAIN mint.COLLECTION_ADDRS

BankTransfers(msgs) == SelectSeq(msgs, LAMBDA m : m.kind = "BankSend")

----------------------------------------------------------------------------
\* Mint of a collection whose whitelist is active, a fee module registered
WhitelistMint == FeeMint /\ WhitelistActive(last'.collection_id)

\* the bank transfers a Mint charged at price p returns
ChargedAt(p) ==
    BankTransfers(last'.sent) =
        IF p # 0
        THEN <<BankSend(MINT_MODULE, mint.CONFIG.admin,
                        mint.COLLECTION_INFO[last'.collection_id].native_denom, p)>>
        ELSE <<>>

\* C24 as stated: with a fee module and an active whitelist, a member is
\* charged the whitelist price and not the standard price, and a caller who
\* is not a member is charged the standard price and the mint proceeds.
C24_Original ==
    [][WhitelistMint =>
          IF WhitelistMember(last'.collection_id, last'.sender)
          THEN last'.handled => ChargedAt(FeeOf("whitelist", last'.collection_id))
          ELSE (FeeOf("price", last'.collection_id) = 0
                \/ last'.funds = <<Coin(mint.COLLECTION_INFO[last'.collection_id].native_denom,
                                        FeeOf("price", last'.collection_id))>>)
               => last'.handled /\ ChargedAt(FeeOf("price", last'.collection_id))]_vars

\* C24 as amended: with a fee module and an active whitelist, a member is
\* charged the whitelist price (possibly zero, then nothing is charged) and
\* not the standard price; a caller who is not a member fails with
\* AddressNotWhitelisted whatever is attached: no message is returned,
\* nothing is charged and nothing is minted.
C24_WhitelistPrice ==
    [][WhitelistMint =>
          IF WhitelistMember(last'.collection_id, last'.sender)
          THEN /\ last'.handled => ChargedAt(FeeOf("whitelist", last'.collection_id))
               /\ last'.err = OK =>
                     bank'[mint.CONFIG.admin][NATIVE_DENOM] =
                        bank[mint.CONFIG.admin][NATIVE_DENOM] + FeeOf("whitelist", last'.collection_id)
          ELSE /\ last'.err = "AddressNotWhitelisted"
               /\ ~last'.handled /\ last'.sent = <<>>
               /\ NothingChanged]_vars

\* a member has minted at the whitelist price while a different standard
\* price was set, and then a caller who is not a member, offering the
\* standard price, was refused
C24_Witness ==
    /\ WhitelistActive(1)
    /\ FeeOf("whitelist", 1) = LowPrice /\ FeeOf("price", 1) = MaxPrice
    /\ tok[ChildAddrs[1]].tokens = <<USER>> /\ bank[ADMIN][NATIVE_DENOM] = LowPrice
    /\ bank[USER][NATIVE_DENOM] = InitBalance - LowPrice
    /\ last.op = "Mint" /\ last.sender = RANDOM /\ last.err = "AddressNotWhitelisted"
    /\ last.funds = <<Coin(NATIVE_DENOM, MaxPrice)>>

----------------------------------------------------------------------------
\* the caller is the admin, the hub or an operator of the mint module
MintPrivileged(sender) ==
    \/ sender = mint.CONFIG.admin
    \/ IsSome(mint.HUB_ADDR) /\ sender = Unwrap(mint.HUB_ADDR)
    \/ IsSome(mint.OPERATORS) /\ sender \in Unwrap(mint.OPERATORS)

\* C25: PermissionMint by a caller without admin or operator privilege fails
\* with Unauthorized.  When the handler accepts the call it returns exactly
\* two messages, in this order: Check, carrying the permission message, to
\* the permission module the hub has registered, then AdminMint, for the
\* collection and recipient asked for, from the mint module to itself.  A
\* token is minted only if the Check succeeds; if the Check fails the
\* invocation fails with the Check's error, nothing is minted and neither
\* storage nor balances change.
C25_PermissionMint ==
    [][Ran("PermissionMint") =>
          LET check == execute_check(World, last'.permission_msg)
          IN  /\ ~MintPrivileged(last'.sender) =>
                    last'.err = "Unauthorized" /\ last'.sent = <<>> /\ NothingChanged
              /\ last'.handled =>
                    /\ MintPrivileged(last'.sender)
                    /\ Len(last'.sent) = 2
                    /\ last'.sent[1].kind = "Check"
                    /\ last'.sent[1].to = ext.modules["permission"]
                    /\ last'.sent[1].msg = last'.permission_msg
                    /\ last'.sent[2].kind = "AdminMint"
                    /\ last'.sent[2].from = MINT_MODULE /\ last'.sent[2].to = MINT_MODULE
                    /\ last'.sent[2].collection_id = last'.collection_id
                    /\ last'.sent[2].recipient = last'.recipient
              /\ tok' # tok => check.err = OK /\ last'.err = OK
              /\ last'.err = OK =>
                    LET t == tok[mint.COLLECTION_ADDRS[last'.collection_id]]
                    IN  tok'[mint.COLLECTION_ADDRS[last'.collection_id]].tokens =
                            MapSave(t.tokens, t.TOKEN_IDS + 1, last'.recipient)
              /\ (last'.handled /\ check.err # OK) =>
                    /\ last'.err = check.err
                    /\ last'.msgs = <<>> /\ NothingChanged]_vars

\* an operator's PermissionMint passed the Check and minted the first token
\* to the recipient
C25_Witness ==
    /\ last.op = "PermissionMint" /\ last.err = OK /\ last.sender = RANDOM
    /\ Len(last.msgs) = 2 /\ last.msgs[1].kind = "Check" /\ last.msgs[2].kind = "AdminMint"
    /\ last.permission_msg = <<[collection_id |-> 1, collection_ids |-> <<1>>]>>
    /\ tok[ChildAddrs[1]].tokens = <<USER>>

----------------------------------------------------------------------------
(* The link permission against the linked collections of the mint module:   *)
(* three collections exist, the admin declares and changes their links, and *)
(* the permission module hands Check messages to the link permission.       *)

execute_update_linked_collections(w, self, sender, collection_id, linked_collections) ==
    IF ~mint_check_admin_privileges(w.mint, self, sender) THEN Fail("Unauthorized", w)
    ELSE IF \E i \in DOMAIN linked_collections : linked_collections[i] = collection_id
         THEN Fail("SelfLinkedCollection", w)
    ELSE IF check_collection_ids_exists(w.mint, <<collection_id>> \o linked_collections) # OK
         THEN Fail(check_collection_ids_exists(w.mint, <<collection_id>> \o linked_collections), w)
    ELSE Res(OK, [w EXCEPT !.mint.LINKED_COLLECTIONS =
                               MapSave(@, collection_id, linked_collections)], <<>>)

LinkIds == 1..3

\* the lists of ids a LinkMsg references
ReferencedChoices == {<<>>, <<1>>, <<2>>, <<1, 2>>, <<2, 1, 3>>}

\* one LinkMsg, or one followed by a LinkMsg for the last collection
LinkData ==
    LET LinkMsgs == {[collection_id |-> c, collection_ids |-> ids] :
                        c \in LinkIds, ids \in ReferencedChoices}
    IN  {<<m>> : m \in LinkMsgs}
        \cup {<<m, [collection_id |-> 3, collection_ids |-> ids]>> :
                 m \in LinkMsgs, ids \in {<<>>, <<1>>}}

InitLink ==
    /\ market = InitMarket(50)
    /\ tok = [addr \in {ChildAddrs[c] : c \in LinkIds} |->
                 token_instantiate(ADMIN, ADMIN, MINT_MODULE, NATIVE_DENOM, None, MINT_MODULE)]
    /\ mint = [mint_instantiate(ADMIN, HUB) EXCEPT
                  !.COLLECTION_ID = 3,
                  !.COLLECTION_ADDRS = [c \in LinkIds |-> ChildAddrs[c]],
                  !.COLLECTION_INFO = [c \in LinkIds |-> NormalCollectionInfo]]
    /\ bank = [a \in Addrs \cup {ChildAddrs[c] : c \in LinkIds} \cup {PERMISSION_MODULE} |->
                 [d \in Denoms |-> IF a \in Users THEN InitBalance ELSE 0]]
    /\ ext = [NoExt EXCEPT !.modules = [n \in {"mint", "permission"} |->
                              IF n = "mint" THEN MINT_MODULE ELSE PERMISSION_MODULE]]
    /\ last = MintingLast("Init", "", <<>>, 0, "", <<>>, Res(OK, World, <<>>), Res(OK, World, <<>>))

UpdateLinkedCollections(sender, collection_id, linked_collections) ==
    LET r == execute_update_linked_collections(World, MINT_MODULE, sender, collection_id,
                                               linked_collections)
        out == CommitMint(World, r)
    IN  Apply(out, MintingLast("UpdateLinkedCollections", sender, <<>>, collection_id, "",
                               linked_collections, r, out))

Check(data) ==
    LET r == execute_check(World, data)
        out == CommitMint(World, r)
    IN  Apply(out, MintingLast("Check", PERMISSION_MODULE, <<>>, 0, "", data, r, out))

LinkNext ==
    \/ \E sender \in {ADMIN, USER}, collection_id \in LinkIds,
          linked_collections \in {<<>>, <<1>>, <<1, 2>>, <<3>>, <<4>>} :
          UpdateLinkedCollections(sender, collection_id, linked_collections)
    \/ \E data \in LinkData : Check(data)

SpecLink == InitLink /\ [][LinkNext]_vars

\* the ids message i of the Check references, and the ids linked to its
\* primary collection
Referenced(i) ==
    {last'.permission_msg[i].collection_ids[k] :
        k \in DOMAIN last'.permission_msg[i].collection_ids}

LinkedTo(i) ==
    LET c == last'.permission_msg[i].collection_id
    IN  IF c \in DOMAIN mint.LINKED_COLLECTIONS
        THEN {mint.LINKED_COLLECTIONS[c][k] : k \in DOMAIN mint.LINKED_COLLECTIONS[c]}
        ELSE {}

\* C26 as stated: Check fails with the empty-set error when a message
\* references no collection ids, fails with the not-authorized error when a
\* referenced id is not in the linked set of the message's primary
\* collection, and succeeds when every referenced id is in that linked set.
C26_Original ==
    [][Ran("Check") =>
          LET msgs == DOMAIN last'.permission_msg
          IN  /\ Referenced(1) = {} => last'.err = "EmptyCollections"
              /\ (/\ \A i \in msgs : Referenced(i) # {}
                  /\ \E i \in msgs : ~(Referenced(i) \subseteq LinkedTo(i)))
                    => last'.err = "LinkedCollectionNotFound"
              /\ (\A i \in msgs : Referenced(i) # {} /\ Referenced(i) \subseteq LinkedTo(i))
                    => last'.err = OK]_vars

\* C26 as amended: Check fails with the empty-set error (EmptyCollections)
\* when a message references no collection ids, fails with
\* LinkedCollectionNotFound when an id of the linked set of the message's
\* primary collection is not among the ids the message references, and
\* succeeds when every message references at least one id and all the ids
\* linked to its primary collection; the first message at fault decides the
\* error, and Check changes nothing.
C26_LinkCheck ==
    [][Ran("Check") =>
          LET msgs == DOMAIN last'.permission_msg
              passes(i) == Referenced(i) # {} /\ LinkedTo(i) \subseteq Referenced(i)
              failing == {i \in msgs : ~passes(i)}
          IN  /\ last'.err = OK <=> failing = {}
              /\ \A i \in failing : (\A j \in failing : i <= j) =>
                    last'.err = IF Referenced(i) = {} THEN "EmptyCollections"
                                ELSE "LinkedCollectionNotFound"
              /\ NothingChanged]_vars

\* a Check passed for collection 3, linked to 1 and 2, with a message that
\* references them and one id more
C26_Witness ==
    /\ last.op = "Check" /\ last.err = OK
    /\ last.permission_msg = <<[collection_id |-> 3, collection_ids |-> <<2, 1, 3>>]>>
    /\ 3 \in DOMAIN mint.LINKED_COLLECTIONS /\ mint.LINKED_COLLECTIONS[3] = <<1, 2>>

----------------------------------------------------------------------------
(* The token contract called directly: one collection; every invocation,    *)
(* failed or not, is a step, and a failed one changes only the record.      *)

\* outcome of the invocation whose handler returned r; arg is the lock, the
\* locks or the limit the message carries
TokenTry(op, sender, token_id, recipient, arg, r) ==
    LET out == CommitTok(World, ChildAddrs[1], r)
    IN  Apply(out, [op |-> op, sender |-> sender, token_id |-> token_id,
                    recipient |-> recipient, arg |-> arg, err |-> out.err, msgs |-> <<>>])

TokenMint(sender, owner) ==
    TokenTry("Mint", sender, tok[ChildAddrs[1]].TOKEN_IDS + 1, owner, None,
             token_execute_mint(tok[ChildAddrs[1]], ChildAddrs[1], sender, owner))

TokenBurn(sender, token_id) ==
    TokenTry("Burn", sender, token_id, "", None,
             token_execute_burn(tok[ChildAddrs[1]], ChildAddrs[1], sender, token_id))

TokenTransferNft(sender, token_id, recipient) ==
    TokenTry("TransferNft", sender, token_id, recipient, None,
             token_execute_transfer(tok[ChildAddrs[1]], ChildAddrs[1], sender, token_id, recipient))

\* receive_ok tells whether the receiving contract accepts the token
TokenSendNft(sender, token_id, contract, receive_ok) ==
    LET r == token_execute_send(tok[ChildAddrs[1]], ChildAddrs[1], sender, token_id, contract)
    IN  TokenTry("SendNft", sender, token_id, contract, None,
                 IF r.err = OK /\ ~receive_ok THEN TRes("Receive.Error", r.t) ELSE r)

TokenAdminTransferNft(sender, token_id, recipient) ==
    TokenTry("AdminTransferNft", sender, token_id, recipient, None,
             token_execute_admin_transfer(tok[ChildAddrs[1]], ChildAddrs[1], sender,
                                          token_id, recipient))

TokenApproveAll(sender, operator) ==
    TokenTry("ApproveAll", sender, 0, operator, None,
             cw721_approve_all(tok[ChildAddrs[1]], sender, operator))

TokenUpdateOperationLock(sender, lock) ==
    TokenTry("UpdateOperationLock", sender, 0, "", lock,
             token_execute_update_operation_lock(tok[ChildAddrs[1]], ChildAddrs[1], sender, lock))

TokenUpdateLocks(sender, locks) ==
    TokenTry("UpdateLocks", sender, 0, "", locks,
             token_execute_update_locks(tok[ChildAddrs[1]], ChildAddrs[1], sender, locks))

TokenUpdateTokenLocks(sender, token_id, locks) ==
    TokenTry("UpdateTokenLock", sender, token_id, "", locks,
             token_execute_update_token_locks(tok[ChildAddrs[1]], ChildAddrs[1], sender,
                                              token_id, locks))

TokenUpdatePerAddressLimit(sender, per_address_limit) ==
    TokenTry("UpdatePerAddressLimit", sender, 0, "", per_address_limit,
             token_execute_update_per_address_limit(tok[ChildAddrs[1]], ChildAddrs[1], sender,
                                                    per_address_limit))

\* the collection as the mint module instantiates it, with a supply cap
InitToken ==
    /\ market = InitMarket(50)
    /\ tok = [addr \in {ChildAddrs[1]} |->
                [token_instantiate(ADMIN, ADMIN, MINT_MODULE, NATIVE_DENOM, None, MINT_MODULE)
                    EXCEPT !.max_token_limit = Some(MaxMints + 1)]]
    /\ mint = InitMint
    /\ bank = InitBank
    /\ ext = NoExt
    /\ last = [op |-> "Init", sender |-> "", token_id |-> 0, recipient |-> "",
               arg |-> None, err |-> OK, msgs |-> <<>>]

\* minting up to and beyond the supply cap while the admin moves the
\* per-address limit
QuotaNext ==
    \/ \E sender \in {MINT_MODULE, USER}, owner \in Users : TokenMint(sender, owner)
    \/ \E sender \in Users, token_id \in 1..(MaxMints + 1) : TokenBurn(sender, token_id)
    \/ \E sender \in Users, token_id \in 1..(MaxMints + 1), recipient \in Users :
          TokenTransferNft(sender, token_id, recipient)
    \/ \E sender \in {ADMIN, USER}, limit \in {None} \cup {Some(n) : n \in 0..(MaxMints + 1)} :
          TokenUpdatePerAddressLimit(sender, limit)

SpecQuota == InitToken /\ [][QuotaNext]_vars

\* one flag each
SingleLocks ==
    {Locks(TRUE, FALSE, FALSE, FALSE), Locks(FALSE, TRUE, FALSE, FALSE),
     Locks(FALSE, FALSE, TRUE, FALSE), Locks(FALSE, FALSE, FALSE, TRUE)}

\* the token of the collection under the operation lock, the locks of the
\* collection and its own lock record, set before and after it is minted
LocksNext ==
    \/ \E sender \in {MINT_MODULE, USER} :
          tok[ChildAddrs[1]].TOKEN_IDS < NumTokens /\ TokenMint(sender, USER)
    \/ \E sender \in Users, token_id \in TokenIds : TokenBurn(sender, token_id)
    \/ \E sender \in Users, token_id \in TokenIds : TokenTransferNft(sender, token_id, RANDOM)
    \/ \E sender \in Users, token_id \in TokenIds, receive_ok \in BOOLEAN :
          TokenSendNft(sender, token_id, MARKET, receive_ok)
    \/ \E sender \in {ADMIN, USER}, token_id \in TokenIds :
          TokenAdminTransferNft(sender, token_id, RANDOM)
    \/ TokenApproveAll(USER, ADMIN)
    \/ \E sender \in {ADMIN, USER}, lock \in BOOLEAN : TokenUpdateOperationLock(sender, lock)
    \/ \E locks \in SingleLocks \cup {NoLocks} : TokenUpdateLocks(ADMIN, locks)
    \/ \E token_id \in TokenIds, locks \in SingleLocks \cup {NoLocks} :
          TokenUpdateTokenLocks(ADMIN, token_id, locks)

SpecLocks == InitToken /\ [][LocksNext]_vars

----------------------------------------------------------------------------
\* the number of tokens the contract t has counted as minted to address a
MintedCount(t, a) ==
    IF a \in DOMAIN t.MINTED_TOKENS_PER_ADDR THEN t.MINTED_TOKENS_PER_ADDR[a] ELSE 0

\* no address has a count above the per-address limit of t, if one is set
WithinPerAddressLimit(t) ==
    IsSome(t.per_address_limit) =>
        \A a \in DOMAIN t.MINTED_TOKENS_PER_ADDR :
            t.MINTED_TOKENS_PER_ADDR[a] <= Unwrap(t.per_address_limit)

WithinMaxTokenLimit(t) ==
    IsSome(t.max_token_limit) => t.TOKEN_IDS <= Unwrap(t.max_token_limit)

\* a Mint that would exceed a limit fails with TokenLimitReached and changes
\* neither counter
OverLimitMintFails ==
    LET t == tok[ChildAddrs[1]]
    IN  (/\ Ran("Mint")
         /\ \/ IsSome(t.max_token_limit) /\ t.TOKEN_IDS + 1 > Unwrap(t.max_token_limit)
            \/ IsSome(t.per_address_limit)
               /\ MintedCount(t, last'.recipient) + 1 > Unwrap(t.per_address_limit))
        => /\ last'.err = "TokenLimitReached"
           /\ tok'[ChildAddrs[1]].TOKEN_IDS = t.TOKEN_IDS
           /\ tok'[ChildAddrs[1]].MINTED_TOKENS_PER_ADDR = t.MINTED_TOKENS_PER_ADDR
           /\ tok'[ChildAddrs[1]].tokens = t.tokens

\* C27 as stated: after any sequence of Mint, Burn, Transfer and
\* UpdatePerAddressLimit, no per-address minted count exceeds the per-address
\* limit currently configured and the number of tokens minted does not
\* exceed the max token limit; a Mint that would exceed either fails with
\* TokenLimitReached and changes neither counter.
C27_Original ==
    [][/\ WithinPerAddressLimit(tok'[ChildAddrs[1]])
       /\ WithinMaxTokenLimit(tok'[ChildAddrs[1]])
       /\ OverLimitMintFails]_vars

\* C27 as amended: the number of tokens minted never exceeds the max token
\* limit; a successful Mint adds one to the owner's count and to the total
\* and leaves the owner's count within the per-address limit then
\* configured; Burn and Transfer change no counter; so the counts are
\* within the current limit unless UpdatePerAddressLimit, which refuses
\* only a limit of zero, has set the limit below a count already reached;
\* a Mint that would exceed either limit fails with TokenLimitReached and
\* changes neither counter.
C27_MintQuota ==
    [][LET t == tok[ChildAddrs[1]]
           u == tok'[ChildAddrs[1]]
       IN  /\ WithinMaxTokenLimit(u)
           /\ OverLimitMintFails
           /\ (Ran("Mint") /\ last'.err = OK) =>
                 /\ u.TOKEN_IDS = t.TOKEN_IDS + 1
                 /\ MintedCount(u, last'.recipient) = MintedCount(t, last'.recipient) + 1
                 /\ IsSome(u.per_address_limit) =>
                       MintedCount(u, last'.recipient) <= Unwrap(u.per_address_limit)
           /\ (Ran("Burn") \/ Ran("TransferNft")) =>
                 /\ u.TOKEN_IDS = t.TOKEN_IDS
                 /\ u.MINTED_TOKENS_PER_ADDR = t.MINTED_TOKENS_PER_ADDR
           /\ (WithinPerAddressLimit(t) /\ ~WithinPerAddressLimit(u)) =>
                 /\ Ran("UpdatePerAddressLimit") /\ last'.err = OK
                 /\ last'.arg # Some(0) /\ u.per_address_limit = last'.arg
                 /\ \E a \in DOMAIN t.MINTED_TOKENS_PER_ADDR :
                       MintedCount(t, a) > Unwrap(last'.arg)
           /\ (Ran("UpdatePerAddressLimit") /\ last'.arg = Some(0)) =>
                 last'.err # OK /\ NothingChanged]_vars

\* with the supply cap not yet reached, a Mint to an address whose count had
\* reached the per-address limit was refused
C27_Witness ==
    LET t == tok[ChildAddrs[1]]
    IN  /\ last.op = "Mint" /\ last.err = "TokenLimitReached" /\ last.sender = MINT_MODULE
        /\ t.per_address_limit = Some(1)
        /\ MintedCount(t, last.recipient) = 1
        /\ t.TOKEN_IDS = 1 /\ t.TOKEN_IDS < Unwrap(t.max_token_limit)

----------------------------------------------------------------------------
\* a lock record with mint_lock set exists for the id the next Mint would use
NextIdMintLocked(t) ==
    (t.TOKEN_IDS + 1) \in DOMAIN t.TOKEN_LOCKS /\ t.TOKEN_LOCKS[t.TOKEN_IDS + 1].mint_lock

\* C28: a Mint on the token contract fails with MintLocked whenever the
\* operation lock, the mint lock of the collection, or a mint lock set
\* beforehand for the next token id is set, whoever calls; then no token is
\* created, the id counter and the per-address counters are unchanged and
\* no balance changes.  With none of the three set a Mint does not fail with
\* MintLocked.
C28_MintLocked ==
    [][Ran("Mint") =>
          LET t == tok[ChildAddrs[1]]
              locked == t.OPERATION_LOCK \/ t.LOCKS.mint_lock \/ NextIdMintLocked(t)
          IN  /\ locked => last'.err = "MintLocked" /\ NothingChanged
              /\ ~locked => last'.err # "MintLocked"
              /\ last'.err # OK =>
                    /\ tok'[ChildAddrs[1]].tokens = t.tokens
                    /\ tok'[ChildAddrs[1]].TOKEN_IDS = t.TOKEN_IDS
                    /\ tok'[ChildAddrs[1]].MINTED_TOKENS_PER_ADDR = t.MINTED_TOKENS_PER_ADDR
                    /\ bank' = bank]_vars

\* the minter's Mint was refused only because of a lock record set for the
\* first token id before any token was minted
C28_Witness ==
    LET t == tok[ChildAddrs[1]]
    IN  /\ last.op = "Mint" /\ last.err = "MintLocked" /\ last.sender = MINT_MODULE
        /\ ~t.OPERATION_LOCK /\ ~t.LOCKS.mint_lock
        /\ t.TOKEN_IDS = 0 /\ t.tokens = <<>>
        /\ NextIdMintLocked(t)

----------------------------------------------------------------------------
\* the lock error of an operation, and whether the flag of that operation is
\* set for the token: by the collection's locks, or by a lock record of the
\* token; without a record only the collection's flag counts
LockErrorOf(op) ==
    CASE op = "Burn" -> "BurnLocked"
      [] op = "TransferNft" -> "TransferLocked"
      [] op = "SendNft" -> "SendLocked"

FlagOf(op, locks) ==
    CASE op = "Burn" -> locks.burn_lock
      [] op = "TransferNft" -> locks.transfer_lock
      [] op = "SendNft" -> locks.send_lock

EffectiveLock(op, t, token_id) ==
    \/ FlagOf(op, t.LOCKS)
    \/ token_id \in DOMAIN t.TOKEN_LOCKS /\ FlagOf(op, t.TOKEN_LOCKS[token_id])

\* C29: with the operation lock off, Burn, TransferNft and SendNft of a
\* token fail with BurnLocked, TransferLocked and SendLocked respectively if
\* and only if the collection's flag for that operation is set or a lock
\* record of the token exists with that flag set; without a record only the
\* collection's flag applies.  An operation that fails leaves every token
\* with its owner.
C29_SemanticLocks ==
    [][(Ran("Burn") \/ Ran("TransferNft") \/ Ran("SendNft")) =>
          LET t == tok[ChildAddrs[1]]
          IN  /\ ~t.OPERATION_LOCK =>
                    (last'.err = LockErrorOf(last'.op)
                        <=> EffectiveLock(last'.op, t, last'.token_id))
              /\ (~t.OPERATION_LOCK /\ last'.token_id \notin DOMAIN t.TOKEN_LOCKS) =>
                    (last'.err = LockErrorOf(last'.op) <=> FlagOf(last'.op, t.LOCKS))
              /\ last'.err # OK => tok'[ChildAddrs[1]].tokens = t.tokens /\ NothingChanged]_vars

\* the owner's SendNft was refused because of the token's own lock record,
\* the collection's locks being off
C29_Witness ==
    LET t == tok[ChildAddrs[1]]
    IN  /\ last.op = "SendNft" /\ last.err = "SendLocked"
        /\ ~t.OPERATION_LOCK /\ t.LOCKS = NoLocks
        /\ last.token_id \in DOMAIN t.tokens /\ t.tokens[last.token_id] = last.sender
        /\ last.token_id \in DOMAIN t.TOKEN_LOCKS
        /\ t.TOKEN_LOCKS[last.token_id] = Locks(FALSE, FALSE, FALSE, TRUE)

----------------------------------------------------------------------------
\* C30 as stated: while the operation lock of the token contract is set,
\* Mint, Burn, TransferNft, SendNft and AdminTransferNft all fail and no
\* token changes its owner, whatever the four semantic locks are; the
\* operation lock is tested first, so Mint, Burn, TransferNft and SendNft
\* fail with their lock error also for an unknown token or a caller who may
\* not move it.
C30_Original ==
    [][(/\ tok[ChildAddrs[1]].OPERATION_LOCK
        /\ last'.op \in {"Mint", "Burn", "TransferNft", "SendNft", "AdminTransferNft"}) =>
          /\ last'.err # OK
          /\ tok'[ChildAddrs[1]].tokens = tok[ChildAddrs[1]].tokens
          /\ last'.op = "Mint" => last'.err = "MintLocked"
          /\ last'.op \in {"Burn", "TransferNft", "SendNft"} =>
                last'.err = LockErrorOf(last'.op)]_vars

\* C30 as amended: while the operation lock is set, Mint, Burn, TransferNft
\* and SendNft fail with their lock error and change nothing, whatever the
\* four semantic locks are and before any other test; AdminTransferNft does
\* not read the operation lock: it succeeds exactly when the caller is
\* privileged and owns the token or is approved by its owner, and then the
\* token changes owner.
C30_OperationLock ==
    [][LET t == tok[ChildAddrs[1]]
       IN  /\ (t.OPERATION_LOCK /\ last'.op \in {"Mint", "Burn", "TransferNft", "SendNft"}) =>
                 /\ last'.err = IF last'.op = "Mint" THEN "MintLocked"
                                ELSE LockErrorOf(last'.op)
                 /\ NothingChanged
           /\ Ran("AdminTransferNft") =>
                 /\ last'.err = OK <=>
                       /\ last'.sender \in {ChildAddrs[1], t.admin, Unwrap(t.MINT_MODULE_ADDR)}
                             \cup (IF IsSome(t.OPERATORS) THEN Unwrap(t.OPERATORS) ELSE {})
                       /\ last'.token_id \in DOMAIN t.tokens
                       /\ \/ t.tokens[last'.token_id] = last'.sender
                          \/ <<t.tokens[last'.token_id], last'.sender>> \in t.operators
                 /\ last'.err = OK =>
                       tok'[ChildAddrs[1]].tokens =
                           MapSave(t.tokens, last'.token_id, last'.recipient)]_vars

\* under the operation lock and no other lock, the Burn of a token by its
\* owner was refused
C30_Witness ==
    LET t == tok[ChildAddrs[1]]
    IN  /\ last.op = "Burn" /\ last.err = "BurnLocked"
        /\ t.OPERATION_LOCK /\ t.LOCKS = NoLocks /\ t.TOKEN_LOCKS = <<>>
        /\ last.token_id \in DOMAIN t.tokens /\ t.tokens[last.token_id] = last.sender
        /\ last.sender = RANDOM

----------------------------------------------------------------------------
\* C31 as stated: when the transfer lock of a token is set, by the
\* collection's locks or by the lock record of the token, AdminTransferNft
\* for that token fails with TransferLocked and every token keeps its owner,
\* also when the caller is the admin or an operator.
C31_Original ==
    [][(/\ Ran("AdminTransferNft")
        /\ EffectiveLock("TransferNft", tok[ChildAddrs[1]], last'.token_id)) =>
          /\ last'.err = "TransferLocked"
          /\ tok'[ChildAddrs[1]].tokens = tok[ChildAddrs[1]].tokens]_vars

\* the caller of an invocation is the contract itself, its admin, the mint
\* module or an operator
Privileged(t, sender) ==
    sender \in {ChildAddrs[1], t.admin, Unwrap(t.MINT_MODULE_ADDR)}
        \cup (IF IsSome(t.OPERATORS) THEN Unwrap(t.OPERATORS) ELSE {})

\* C31 as amended: AdminTransferNft does not read the transfer locks.  When
\* the transfer lock of a token is set, by the collection's locks or by the
\* lock record of the token, AdminTransferNft for that token never fails
\* with TransferLocked: a privileged caller who owns the token or is
\* approved by its owner moves it to the recipient, the locks staying as
\* they are, and any other caller is refused as unauthorized with every
\* token keeping its owner.
C31_AdminTransferIgnoresLocks ==
    [][(/\ Ran("AdminTransferNft")
        /\ EffectiveLock("TransferNft", tok[ChildAddrs[1]], last'.token_id)) =>
          LET t == tok[ChildAddrs[1]]
              may == /\ Privileged(t, last'.sender)
                     /\ last'.token_id \in DOMAIN t.tokens
                     /\ cw721_check_can_send(t, last'.sender, last'.token_id)
          IN  /\ last'.err # "TransferLocked"
              /\ may => /\ last'.err = OK
                        /\ tok'[ChildAddrs[1]] =
                              [t EXCEPT !.tokens = MapSave(t.tokens, last'.token_id,
                                                           last'.recipient)]
              /\ ~may => /\ last'.err \in {"Token.Unauthorized", "Token.NotFound"}
                         /\ NothingChanged]_vars

\* the admin, approved by the owner, has moved a token whose own lock
\* record forbids transfers
C31_Witness ==
    LET t == tok[ChildAddrs[1]]
    IN  /\ last.op = "AdminTransferNft" /\ last.err = OK /\ last.sender = ADMIN
        /\ last.token_id \in DOMAIN t.TOKEN_LOCKS
        /\ t.TOKEN_LOCKS[last.token_id].transfer_lock
        /\ last.token_id \in DOMAIN t.tokens /\ t.tokens[last.token_id] = RANDOM

----------------------------------------------------------------------------
\* C32 as stated: a successful Burn of a token removes its ownership record
\* and its lock record, so that afterwards no lock record exists for that
\* token id.
C32_Original ==
    [][(Ran("Burn") /\ last'.err = OK) =>
          /\ last'.token_id \notin DOMAIN tok'[ChildAddrs[1]].tokens
          /\ last'.token_id \notin DOMAIN tok'[ChildAddrs[1]].TOKEN_LOCKS]_vars

\* C32 as amended: a successful Burn of a token removes its ownership record
\* and nothing else: the lock records are left as they were, so a lock
\* record the token had before the Burn still exists afterwards.
C32_BurnKeepsLockRecord ==
    [][(Ran("Burn") /\ last'.err = OK) =>
          LET t == tok[ChildAddrs[1]]
          IN  /\ last'.token_id \in DOMAIN t.tokens
              /\ tok'[ChildAddrs[1]] =
                    [t EXCEPT !.tokens = MapRemove(t.tokens, last'.token_id)]
              /\ tok'[ChildAddrs[1]].TOKEN_LOCKS = t.TOKEN_LOCKS]_vars

\* a token with a lock record that forbids transfers has been burnt by its
\* owner, and the record is still there
C32_Witness ==
    LET t == tok[ChildAddrs[1]]
    IN  /\ last.op = "Burn" /\ last.err = OK
        /\ last.token_id \notin DOMAIN t.tokens
        /\ last.token_id \in DOMAIN t.TOKEN_LOCKS
        /\ t.TOKEN_LOCKS[last.token_id] = Locks(FALSE, FALSE, TRUE, FALSE)

----------------------------------------------------------------------------
\* C33: UpdateTokenLock by the admin for a token id that has not been minted
\* fails with TokenNotFound and creates no lock record.
C33_TokenNotFound ==
    [][(/\ Ran("UpdateTokenLock")
        /\ last'.sender = tok[ChildAddrs[1]].admin
        /\ last'.token_id \notin DOMAIN tok[ChildAddrs[1]].tokens
        /\ last'.token_id > tok[ChildAddrs[1]].TOKEN_IDS) =>
          /\ last'.err = "TokenNotFound"
          /\ tok'[ChildAddrs[1]].TOKEN_LOCKS = tok[ChildAddrs[1]].TOKEN_LOCKS]_vars

\* the admin's UpdateTokenLock for the id of a token that was never minted
\* has been accepted and has left a lock record for that id
C33_Witness ==
    LET t == tok[ChildAddrs[1]]
    IN  /\ last.op = "UpdateTokenLock" /\ last.err = OK /\ last.sender = t.admin
        /\ t.TOKEN_IDS = 0 /\ t.tokens = <<>>
        /\ last.token_id \in DOMAIN t.TOKEN_LOCKS
        /\ t.TOKEN_LOCKS[last.token_id] = last.arg

----------------------------------------------------------------------------
(* The token contract with a start time.  The block time of an invocation   *)
(* is an input that never decreases; it is recorded with the outcome.       *)

MaxTime == 3

StartTimes == {None} \cup {Some(s) : s \in 0..MaxTime}

\* outcome of the invocation at block time `time' whose handler returned r
TimedTry(op, sender, time, arg, r) ==
    LET out == CommitTok(World, ChildAddrs[1], r)
    IN  /\ time >= last.time
        /\ Apply(out, [op |-> op, sender |-> sender, time |-> time, arg |-> arg,
                       token_id |-> tok[ChildAddrs[1]].TOKEN_IDS + 1,
                       err |-> out.err, msgs |-> <<>>])

\* execute_mint does not read the block time
TimedMint(sender, owner, time) ==
    TimedTry("Mint", sender, time, owner,
             token_execute_mint(tok[ChildAddrs[1]], ChildAddrs[1], sender, owner))

TimedUpdateStartTime(sender, time, start_time) ==
    TimedTry("UpdateStartTime", sender, time, start_time,
             token_execute_update_start_time(tok[ChildAddrs[1]], ChildAddrs[1], sender,
                                             time, start_time))

\* the collection instantiated at time 0 with any start time: none is in the
\* past (token contract.rs 73)
InitStart ==
    /\ market = InitMarket(50)
    /\ \E start_time \in StartTimes :
          tok = [addr \in {ChildAddrs[1]} |->
                    [token_instantiate(ADMIN, ADMIN, MINT_MODULE, NATIVE_DENOM, None, MINT_MODULE)
                        EXCEPT !.start_time = start_time,
                               !.max_token_limit = Some(MaxMints + 1)]]
    /\ mint = InitMint
    /\ bank = InitBank
    /\ ext = NoExt
    /\ last = [op |-> "Init", sender |-> "", time |-> 0, arg |-> None, token_id |-> 0,
               err |-> OK, msgs |-> <<>>]

StartNext ==
    \E time \in 0..MaxTime :
        \/ \E sender \in {MINT_MODULE, USER} : TimedMint(sender, USER, time)
        \/ \E sender \in {ADMIN, USER}, start_time \in StartTimes :
              TimedUpdateStartTime(sender, time, start_time)

SpecStart == InitStart /\ [][StartNext]_vars

\* C34: Mint on the token contract fails with MintingNotStarted whenever the
\* collection has a start time later than the block time of the invocation,
\* and then no token is created.
C34_MintingNotStarted ==
    [][(/\ Ran("Mint")
        /\ IsSome(tok[ChildAddrs[1]].start_time)
        /\ Unwrap(tok[ChildAddrs[1]].start_time) > last'.time) =>
          /\ last'.err = "MintingNotStarted"
          /\ tok'[ChildAddrs[1]].tokens = tok[ChildAddrs[1]].tokens
          /\ tok'[ChildAddrs[1]].TOKEN_IDS = tok[ChildAddrs[1]].TOKEN_IDS]_vars

\* the mint module has minted token 1 at a block time before the start time
\* of the collection
C34_Witness ==
    LET t == tok[ChildAddrs[1]]
    IN  /\ last.op = "Mint" /\ last.err = OK /\ last.sender = MINT_MODULE
        /\ IsSome(t.start_time) /\ Unwrap(t.start_time) > last.time
        /\ 1 \in DOMAIN t.tokens /\ t.tokens[1] = USER

----------------------------------------------------------------------------
\* the payments of a batch of messages to the address a
PaymentsTo(msgs, a) ==
    {i \in 1..Len(msgs) : msgs[i].kind = "BankSend" /\ msgs[i].to = a}

\* C35: a Buy emits a royalty payment to the creator of the collection if and
\* only if the royalty fee it computed is greater than zero; without a
\* royalty share, or when the share of the price floors to zero, it emits no
\* royalty payment.
C35_RoyaltyIffPositive ==
    [][(Ran("Buy") /\ last'.err = OK) =>
          LET token_config == tok[ChildAddrs[last'.collection_id]]
              price == ListingAt(last'.collection_id, last'.token_id).price
              paid == PaymentsTo(last'.msgs, token_config.creator)
          IN  /\ paid # {} <=> RoyaltyFee(token_config, price) > 0
              /\ \A i \in paid : last'.msgs[i].amount > 0]_vars

\* a Buy on a chain that accepts it has sent the creator a royalty payment
\* of amount zero: the royalty share is positive and its share of the price
\* floors to zero
C35_Witness ==
    LET token_config == tok[ChildAddrs[1]]
    IN  /\ last.op = "Buy" /\ last.err = OK
        /\ IsSome(token_config.royalty_share) /\ Unwrap(token_config.royalty_share) > 0
        /\ \E i \in PaymentsTo(last.msgs, token_config.creator) : last.msgs[i].amount = 0

----------------------------------------------------------------------------
\* C36: a Buy fails whenever the marketplace fee plus the royalty fee of the
\* listing exceeds its price, which needs a fee rate and a royalty share
\* that sum to more than 1; the listing, the balances and the owners are
\* then as before.  The failure is the overflow error of the checked
\* subtraction when the Buy has passed the tests that come first (the buyer
\* is not the seller and has sent exactly the price), and that error is
\* raised in no other case.
C36_FeesExceedPrice ==
    [][(Ran("Buy") /\ Listed(last'.collection_id, last'.token_id)) =>
          LET listing == ListingAt(last'.collection_id, last'.token_id)
              p == listing.price
              f == market.CONFIG.fee_percentage
              share == tok[ChildAddrs[last'.collection_id]].royalty_share
              r == IF IsSome(share) THEN Unwrap(share) ELSE 0
              fees == (p * f) \div DECIMAL_FRACTIONAL + (p * r) \div DECIMAL_FRACTIONAL
              passes == /\ listing.owner # last'.sender
                        /\ last'.funds = <<Coin(market.CONFIG.native_denom, p)>>
          IN  /\ fees > p => (last'.err # OK /\ NothingChanged /\ f + r > DECIMAL_FRACTIONAL)
              /\ (passes /\ fees > p) => last'.err = "Overflow"
              /\ last'.err = "Overflow" => (passes /\ fees > p)]_vars

\* a Buy with the right funds has failed with the overflow error: fee rate
\* and royalty share sum to more than 1 and the token is still listed and
\* still the seller's
C36_Witness ==
    /\ last.op = "Buy" /\ last.err = "Overflow"
    /\ last.funds = <<Coin(NATIVE_DENOM, ListingAt(1, 1).price)>>
    /\ Listed(1, 1) /\ OwnerAt(1, 1) = USER
    /\ market.CONFIG.fee_percentage + Unwrap(tok[ChildAddrs[1]].royalty_share)
          > DECIMAL_FRACTIONAL

----------------------------------------------------------------------------
(* The whole system: the marketplace, the token contracts with every        *)
(* privileged operation sent directly, and the collection registry of the   *)
(* mint module, whose admin moves collections to the blacklist and back.    *)

\* the mint module after it has created the collections; the admin holds
\* funds too, and can buy
InitSystem ==
    /\ market = InitMarket(50)
    /\ \E a \in TokenAdmins :
         tok = [addr \in CollectionAddrs |->
                   token_instantiate(a, ADMIN, MINT_MODULE, NATIVE_DENOM, Some(25), MINT_MODULE)]
    /\ mint = [mint_instantiate(ADMIN, HUB) EXCEPT
                  !.COLLECTION_ID = InitMint.COLLECTION_ID,
                  !.COLLECTION_ADDRS = InitMint.COLLECTION_ADDRS]
    /\ bank = [InitBank EXCEPT ![ADMIN][NATIVE_DENOM] = InitBalance]
    /\ ext = NoExt
    /\ last = NoLast

\* every sale is at the price MaxPrice
SystemNext ==
    \/ \E sender \in Users, c \in CollectionIds, t \in TokenIds :
          \/ ListFixedToken(sender, c, t, MaxPrice)
          \/ DelistFixedToken(sender, c, t)
          \/ TransferNft(sender, c, t, RANDOM)
          \/ Burn(sender, c, t)
    \/ \E sender \in Callers, c \in CollectionIds, t \in TokenIds :
          Buy(sender, <<Coin(NATIVE_DENOM, MaxPrice)>>, c, t)
    \/ \E c \in CollectionIds :
          \/ MintToken(c, USER)
          \/ \E t \in TokenIds, locks \in TokenLockChoices : UpdateTokenLock(ADMIN, c, t, locks)
          \/ \E u \in Users : ApproveAll(u, c, MARKET)
          \/ UpdateOperators(ADMIN, c, {MARKET})
          \/ ApproveAll(USER, c, ADMIN)
          \/ \E t \in TokenIds : AdminTransferNft(ADMIN, c, t, RANDOM)
          \/ BlacklistCollection(ADMIN, c)
          \/ WhitelistCollection(ADMIN, c)

SpecSystem == InitSystem /\ [][SystemNext]_vars

\* every listing names the present owner of its token
ListingOwnersConsistent ==
    \A k \in DOMAIN market.FIXED_LISTING :
        /\ HasToken(k[1], k[2])
        /\ OwnerAt(k[1], k[2]) = market.FIXED_LISTING[k].owner

\* C37: in every reachable state the owner recorded in a fixed listing is
\* the present owner of the token in its token contract, so the payout of a
\* successful Buy goes to the address that owned the token immediately
\* before the Buy: every payment of the Buy goes to that owner or to the
\* creator of the collection.
C37_ListingOwner ==
    /\ ListingOwnersConsistent
    /\ [][/\ ListingOwnersConsistent'
          /\ (Ran("Buy") /\ last'.err = OK) =>
                LET owner == OwnerAt(last'.collection_id, last'.token_id)
                    creator == tok[ChildAddrs[last'.collection_id]].creator
                IN  /\ PaymentsTo(last'.msgs, owner) # {}
                    /\ \A i \in 1..Len(last'.msgs) :
                          last'.msgs[i].kind = "BankSend" =>
                              last'.msgs[i].to \in {owner, creator}
                    /\ bank'[owner][NATIVE_DENOM] > bank[owner][NATIVE_DENOM]]_vars

\* RANDOM, to whom USER had transferred the token, has listed it, and USER
\* has bought it back: the payout went to RANDOM
C37_Witness ==
    /\ last.op = "Buy" /\ last.err = OK /\ last.sender = USER
    /\ HasToken(1, 1) /\ OwnerAt(1, 1) = USER
    /\ bank[RANDOM][NATIVE_DENOM] > InitBalance
    /\ bank[USER][NATIVE_DENOM] < InitBalance

----------------------------------------------------------------------------
\* C38: a listing is bought at most once.  Each Buy is one transaction; a
\* Buy that succeeds is a Buy of a listed token and removes the listing as
\* it hands the token to the buyer, and a Buy for a (collection, token)
\* without a listing, such as the Buy of a second buyer after the first has
\* succeeded, fails because the listing is not found and changes nothing:
\* the funds the buyer attached are with the buyer again.
C38_BoughtAtMostOnce ==
    [][Ran("Buy") =>
          LET c == last'.collection_id
              t == last'.token_id
          IN  /\ ~Listed(c, t) => (last'.err = "Std.NotFound" /\ NothingChanged)
              /\ last'.err = OK =>
                    /\ Listed(c, t)
                    /\ <<c, t>> \notin DOMAIN market'.FIXED_LISTING
                    /\ tok'[ChildAddrs[c]].tokens[t] = last'.sender
              /\ last'.err # OK => bank'[last'.sender] = bank[last'.sender]]_vars

\* USER has sold the token to RANDOM, and the Buy of the admin for the same
\* listing, with the price attached, has failed: the listing was gone
C38_Witness ==
    /\ last.op = "Buy" /\ last.sender = ADMIN /\ last.err = "Std.NotFound"
    /\ last.funds = <<Coin(NATIVE_DENOM, MaxPrice)>>
    /\ ~Listed(1, 1) /\ HasToken(1, 1) /\ OwnerAt(1, 1) = RANDOM
    /\ bank[USER][NATIVE_DENOM] > InitBalance
    /\ bank[RANDOM][NATIVE_DENOM] = InitBalance - MaxPrice
    /\ bank[ADMIN][NATIVE_DENOM] >= InitBalance

----------------------------------------------------------------------------
\* the step is a successful DelistFixedToken or Buy of the token whose
\* successful ListFixedToken was the invocation before it
ListedThenReleased ==
    /\ last.op = "ListFixedToken" /\ last.err = OK
    /\ (Ran("DelistFixedToken") \/ Ran("Buy")) /\ last'.err = OK
    /\ last'.collection_id = last.collection_id
    /\ last'.token_id = last.token_id

\* C39 as stated: ListFixedToken followed by DelistFixedToken or by Buy
\* leaves the lock record of the token as it was before the listing: no
\* record if there was none, and the same flags, the mint lock among them,
\* if there was one.
C39_Original ==
    [][ListedThenReleased =>
          LET t == last.token_id
              after == tok'[ChildAddrs[last.collection_id]].TOKEN_LOCKS
          IN  /\ t \in DOMAIN after <=> t \in DOMAIN last.before
              /\ t \in DOMAIN last.before => after[t] = last.before[t]]_vars

\* C39 as amended: ListFixedToken followed by DelistFixedToken or by Buy
\* leaves the token with a lock record whose four flags are all false,
\* whatever it had before the listing: the listing overwrites the record
\* with mint = false and the three other flags true, and the release
\* overwrites it with four times false.  The record is as before only if it
\* was an all-false record; a token without a record has one afterwards.
C39_LocksOverwritten ==
    [][/\ (Ran("ListFixedToken") /\ last'.err = OK) =>
             LET after == tok'[ChildAddrs[last'.collection_id]].TOKEN_LOCKS
             IN  /\ last'.token_id \in DOMAIN after
                 /\ after[last'.token_id] = Locks(FALSE, TRUE, TRUE, TRUE)
       /\ ListedThenReleased =>
             LET t == last.token_id
                 after == tok'[ChildAddrs[last.collection_id]].TOKEN_LOCKS
             IN  /\ t \in DOMAIN after
                 /\ after[t] = Locks(FALSE, FALSE, FALSE, FALSE)
                 /\ (t \in DOMAIN last.before /\ after[t] = last.before[t])
                       <=> (t \in DOMAIN last.before /\ last.before[t] = NoLocks)]_vars

\* RANDOM, who had bought the token, has listed and delisted it: the token
\* has an all-false lock record
C39_Witness ==
    /\ last.op = "DelistFixedToken" /\ last.err = OK /\ last.sender = RANDOM
    /\ ~Listed(1, 1) /\ OwnerAt(1, 1) = RANDOM
    /\ bank[RANDOM][NATIVE_DENOM] < InitBalance
    /\ HasLockRecord(1, 1) /\ LockRecord(1, 1) = NoLocks

----------------------------------------------------------------------------
\* the marketplace may update the locks of the tokens of collection c
MarketPrivileged(c) == MarketIsAdmin(c) \/ MarketIsOperator(c)

\* the step is a DelistFixedToken of a listed token by the owner its listing
\* names
DelistByListingOwner ==
    /\ Ran("DelistFixedToken")
    /\ Listed(last'.collection_id, last'.token_id)
    /\ last'.sender = ListingAt(last'.collection_id, last'.token_id).owner

====
